---- MODULE Spec2Model ----
(***************************************************************************)
(* Event management system (final-project-group8-inteprog.cpp): the four   *)
(* entity stores, the flat-file codec, the allocation and registration     *)
(* engines and the load/save facade.                                       *)
(*                                                                         *)
(* A string is a sequence of one-character strings, so that the codec is   *)
(* modelled by what it does to the characters of a line.                   *)
(***************************************************************************)
EXTENDS Integers, Sequences, FiniteSets, TLC

(***************************************************************************)
(* Bounds of the model.                                                    *)
(***************************************************************************)
\* an allocation is entered only while the event's entry for the item stays
\* within MaxQty; the quantities entered at the prompts are 1..MaxQty + 1 and
\* the totals 1..MaxQty
MaxQty == 1
\* the process runs MaxRuns times; the operator works in every run but the
\* last, which is followed through loadData and seedInitialData
MaxRuns == 2
\* createEvent is entered only while the store holds fewer events ...
MaxEvents == 2
\* ... and the event id counter is at most MaxEventId
MaxEventId == 3
\* a registration that creates an attendee is entered only while the attendee
\* id counter is at most MaxAttendeeId
MaxAttendeeId == 2
\* an account is created only while the user id counter is at most MaxUserId,
\* an item is added only while the item id counter is at most MaxItemId
MaxUserId == 5
MaxItemId == 3

(***************************************************************************)
(* Enumerations (ordinals as static_cast<int> writes them).                *)
(***************************************************************************)
ADMIN == 0
REGULAR_USER == 1
NONE == 2
UPCOMING == 0
ONGOING == 1
COMPLETED == 2
CANCELED == 3

(***************************************************************************)
(* A local variable: value is computed once and named in Body.             *)
(***************************************************************************)
Local(value, Body(_)) == Body(value)

(***************************************************************************)
(* Characters and integers as text.                                        *)
(***************************************************************************)
Digits == <<"0", "1", "2", "3", "4", "5", "6", "7", "8", "9">>
Uppers == <<"A", "B", "C", "D", "E", "F", "G", "H", "I", "J", "K", "L", "M",
            "N", "O", "P", "Q", "R", "S", "T", "U", "V", "W", "X", "Y", "Z">>
Lowers == <<"a", "b", "c", "d", "e", "f", "g", "h", "i", "j", "k", "l", "m",
            "n", "o", "p", "q", "r", "s", "t", "u", "v", "w", "x", "y", "z">>
EOF == "EOF"
NL == "\n"

IsDigit(c) == \E i \in 1..10 : Digits[i] = c
DigitVal(c) == (CHOOSE i \in 1..10 : Digits[i] = c) - 1
\* the largest int (32 bits)
IntMax == 2147483647

\* tolower on one character
ToLowerChar(c) ==
    IF \E i \in 1..26 : Uppers[i] = c
    THEN Lowers[CHOOSE i \in 1..26 : Uppers[i] = c]
    ELSE c

\* toLower(string): transform every character with tolower
toLower(s) == [i \in 1..Len(s) |-> ToLowerChar(s[i])]

RECURSIVE NatToStr(_)
NatToStr(n) ==
    IF n < 10 THEN <<Digits[n + 1]>>
    ELSE NatToStr(n \div 10) \o <<Digits[(n % 10) + 1]>>

\* operator<<(int): decimal digits, '-' first for a negative value
IntToStr(n) == IF n < 0 THEN <<"-">> \o NatToStr(0 - n) ELSE NatToStr(n)

RECURSIVE SkipSpaces(_, _)
SkipSpaces(s, i) ==
    IF i <= Len(s) /\ s[i] = " " THEN SkipSpaces(s, i + 1) ELSE i

\* the run of digits from position i, accumulated with the sign so that the
\* whole range of int is covered; over = TRUE when the value leaves it
RECURSIVE ParseDigits(_, _, _, _)
ParseDigits(s, i, acc, neg) ==
    IF i <= Len(s) /\ IsDigit(s[i])
    THEN LET d == DigitVal(s[i])
             fits == IF neg
                     THEN acc >= 0 - (IF d = 0 THEN IntMax \div 10
                                      ELSE (IntMax - (d - 1)) \div 10)
                     ELSE acc <= (IntMax - d) \div 10
         IN  IF fits
             THEN ParseDigits(s, i + 1, IF neg THEN acc * 10 - d ELSE acc * 10 + d, neg)
             ELSE [next |-> i, val |-> 0, over |-> TRUE]
    ELSE [next |-> i, val |-> acc, over |-> FALSE]

\* std::stoi: leading blanks skipped, an optional sign, then the longest run
\* of digits; what follows the digits is ignored.  ok = FALSE stands for the
\* exception (invalid_argument with no digit, out_of_range beyond int).
Stoi(s) ==
    Local(SkipSpaces(s, 1), LAMBDA i :
    Local(i <= Len(s) /\ s[i] = "-", LAMBDA neg :
    Local(IF neg \/ (i <= Len(s) /\ s[i] = "+") THEN i + 1 ELSE i, LAMBDA j :
    Local(ParseDigits(s, j, 0, neg), LAMBDA r :
        IF r.over \/ r.next = j THEN [ok |-> FALSE, val |-> 0]
        ELSE [ok |-> TRUE, val |-> r.val]))))

\* std::count(str.begin(), str.end(), c)
CountChar(s, c) == Cardinality({i \in 1..Len(s) : s[i] = c})

\* position of the first c at or after position from, 0 when there is none
FindFrom(s, from, c) ==
    IF \E i \in from..Len(s) : s[i] = c
    THEN CHOOSE i \in from..Len(s) : s[i] = c /\ \A k \in from..(i - 1) : s[k] # c
    ELSE 0

(***************************************************************************)
(* std::stringstream: the text, the read position and the state bits.      *)
(***************************************************************************)
Stream(s) == [s |-> s, pos |-> 1, eof |-> FALSE, fail |-> FALSE]
Good(st) == ~st.eof /\ ~st.fail

\* std::getline(st, str, delim).  A stream that is not good only gets failbit
\* and str keeps its old value cur; otherwise str is erased and filled up to
\* the delimiter (consumed) or to the end (eofbit; failbit when nothing was
\* extracted).
GetLine(st, cur, delim) ==
    IF ~Good(st) THEN [st |-> [st EXCEPT !.fail = TRUE], str |-> cur]
    ELSE Local(FindFrom(st.s, st.pos, delim), LAMBDA d :
             IF d # 0
             THEN [st |-> [st EXCEPT !.pos = d + 1],
                   str |-> SubSeq(st.s, st.pos, d - 1)]
             ELSE [st |-> [st EXCEPT !.pos = Len(st.s) + 1, !.eof = TRUE,
                                     !.fail = (st.pos > Len(st.s))],
                   str |-> SubSeq(st.s, st.pos, Len(st.s))])

\* istream::peek(): EOF on a stream that is not good (failbit) or at its end
\* (eofbit)
Peek(st) ==
    IF ~Good(st) THEN [st |-> [st EXCEPT !.fail = TRUE], c |-> EOF]
    ELSE IF st.pos > Len(st.s) THEN [st |-> [st EXCEPT !.eof = TRUE], c |-> EOF]
    ELSE [st |-> st, c |-> st.s[st.pos]]

\* the segments getline(ss, seg, delim) yields in a while loop
RECURSIVE SplitLoop(_, _, _)
SplitLoop(st, cur, delim) ==
    Local(GetLine(st, cur, delim), LAMBDA g :
        IF g.st.fail THEN <<>>
        ELSE <<g.str>> \o SplitLoop(g.st, g.str, delim))
Split(s, delim) == SplitLoop(Stream(s), <<>>, delim)

RECURSIVE Join(_, _)
Join(parts, sep) ==
    IF parts = <<>> THEN <<>>
    ELSE IF Len(parts) = 1 THEN parts[1]
    ELSE parts[1] \o sep \o Join(Tail(parts), sep)

(***************************************************************************)
(* std::map<int,int>: a function on the set of its keys.                   *)
(***************************************************************************)
EmptyMap == <<>>
MapPut(m, k, v) == [x \in (DOMAIN m) \cup {k} |-> IF x = k THEN v ELSE m[x]]
MapErase(m, k) == [x \in (DOMAIN m) \ {k} |-> m[x]]
MapGet(m, k) == IF k \in DOMAIN m THEN m[k] ELSE 0

\* the keys in ascending order, as iteration over a std::map visits them
RECURSIVE SortedKeys(_)
SortedKeys(S) ==
    IF S = {} THEN <<>>
    ELSE Local(CHOOSE x \in S : \A y \in S : x <= y, LAMBDA lo :
             <<lo>> \o SortedKeys(S \ {lo}))

(***************************************************************************)
(* Constructors that take the id: the static counter is moved past it.     *)
(***************************************************************************)
ObserveId(next, id) == IF id >= next THEN id + 1 ELSE next

\* the post-increment as it would run if it left the counter alone
PostIncrementStuck(next) == next

\* Constructors that issue the id (userId = nextUserId++ and its like): the
\* record takes the counter's value and the counter moves on by one.
PostIncrement(next) == next + 1

\* static void initNextId(int id)
initNextId(next, id) == IF id >= next THEN id + 1 ELSE next

(***************************************************************************)
(* Codec: User.                                                            *)
(***************************************************************************)
MkUser(id, uname, pwd, role) ==
    [userId |-> id, username |-> uname, password |-> pwd, role |-> role]

UserToString(u) ==
    IntToStr(u.userId) \o <<",">> \o u.username \o <<",">> \o u.password
        \o <<",">> \o IntToStr(u.role)

\* User::fromString: ok = FALSE is the nullptr result; diag counts the warnings
UserFromString(str) ==
    IF str = <<>> \/ CountChar(str, ",") < 3
    THEN [ok |-> FALSE, rec |-> MkUser(0, <<>>, <<>>, NONE), diag |-> 1]
    ELSE Local(GetLine(Stream(str), <<>>, ","), LAMBDA g1 :
         Local(Stoi(g1.str), LAMBDA id :
         Local(GetLine(g1.st, <<>>, ","), LAMBDA g2 :
         Local(GetLine(g2.st, <<>>, ","), LAMBDA g3 :
         Local(GetLine(g3.st, g1.str, ","), LAMBDA g4 :
         Local(Stoi(g4.str), LAMBDA rl :
             IF ~id.ok \/ ~rl.ok
             THEN [ok |-> FALSE, rec |-> MkUser(0, <<>>, <<>>, NONE), diag |-> 1]
             ELSE IF rl.val = ADMIN \/ rl.val = REGULAR_USER
             THEN [ok |-> TRUE, rec |-> MkUser(id.val, g2.str, g3.str, rl.val),
                   diag |-> 0]
             ELSE [ok |-> FALSE, rec |-> MkUser(0, <<>>, <<>>, NONE), diag |-> 1]))))))

(***************************************************************************)
(* Codec: Attendee.                                                        *)
(***************************************************************************)
MkAttendee(id, n, contact, eventId, checkedIn) ==
    [attendeeId |-> id, name |-> n, contactInfo |-> contact,
     eventIdRegisteredFor |-> eventId, isCheckedIn |-> checkedIn]

ERRORSTR == <<"E", "R", "R", "O", "R">>

AttendeeToString(a) ==
    IntToStr(a.attendeeId) \o <<",">> \o a.name \o <<",">> \o a.contactInfo
        \o <<",">> \o IntToStr(a.eventIdRegisteredFor) \o <<",">>
        \o (IF a.isCheckedIn THEN <<"1">> ELSE <<"0">>)

\* Attendee::fromString: a failed stoi yields the record named ERROR
AttendeeFromString(str) ==
    Local(GetLine(Stream(str), <<>>, ","), LAMBDA g1 :
    Local(Stoi(g1.str), LAMBDA id :
    Local(GetLine(g1.st, <<>>, ","), LAMBDA g2 :
    Local(GetLine(g2.st, <<>>, ","), LAMBDA g3 :
    Local(GetLine(g3.st, g1.str, ","), LAMBDA g4 :
    Local(Stoi(g4.str), LAMBDA ev :
    Local(GetLine(g4.st, g4.str, ","), LAMBDA g5 :
        IF ~id.ok \/ ~ev.ok
        THEN [rec |-> MkAttendee(0, ERRORSTR, ERRORSTR, 0, FALSE), diag |-> 1]
        ELSE [rec |-> MkAttendee(id.val, g2.str, g3.str, ev.val, g5.str = <<"1">>),
              diag |-> 0])))))))

(***************************************************************************)
(* Codec: InventoryItem.                                                   *)
(***************************************************************************)
MkItem(id, n, totalQty, allocQty, desc) ==
    [itemId |-> id, name |-> n, totalQuantity |-> totalQty,
     allocatedQuantity |-> allocQty, description |-> desc]

\* toString as it would be with the two quantities written in the other order
ItemToStringQuantitiesSwapped(i) ==
    IntToStr(i.itemId) \o <<",">> \o i.name \o <<",">> \o IntToStr(i.allocatedQuantity)
        \o <<",">> \o IntToStr(i.totalQuantity) \o <<",">> \o i.description

ItemToString(i) ==
    IntToStr(i.itemId) \o <<",">> \o i.name \o <<",">> \o IntToStr(i.totalQuantity)
        \o <<",">> \o IntToStr(i.allocatedQuantity) \o <<",">> \o i.description

\* InventoryItem::fromString: the description is the rest of the line
ItemFromString(str) ==
    Local(GetLine(Stream(str), <<>>, ","), LAMBDA g1 :
    Local(Stoi(g1.str), LAMBDA id :
    Local(GetLine(g1.st, <<>>, ","), LAMBDA g2 :
    Local(GetLine(g2.st, g1.str, ","), LAMBDA g3 :
    Local(Stoi(g3.str), LAMBDA tq :
    Local(GetLine(g3.st, g3.str, ","), LAMBDA g4 :
    Local(Stoi(g4.str), LAMBDA aq :
    Local(GetLine(g4.st, <<>>, NL), LAMBDA g5 :
        IF ~id.ok \/ ~tq.ok \/ ~aq.ok
        THEN [rec |-> MkItem(0, ERRORSTR, 0, 0, ERRORSTR), diag |-> 1]
        ELSE [rec |-> MkItem(id.val, g2.str, tq.val, aq.val, g5.str), diag |-> 0]
    ))))))))

(***************************************************************************)
(* Codec: Event.                                                           *)
(***************************************************************************)
MkEvent(id, n, d, t, loc, desc, cat, stat, atts, inv) ==
    [eventId |-> id, name |-> n, date |-> d, time |-> t, location |-> loc,
     description |-> desc, category |-> cat, status |-> stat,
     attendeeIds |-> atts, allocatedInventory |-> inv]

\* Event::attendeesToString
attendeesToString(e) ==
    Join([i \in 1..Len(e.attendeeIds) |-> IntToStr(e.attendeeIds[i])], <<";">>)

\* Event::inventoryToString
inventoryToString(e) ==
    Local(SortedKeys(DOMAIN e.allocatedInventory), LAMBDA ks :
        Join([i \in 1..Len(ks) |->
                 IntToStr(ks[i]) \o <<":">> \o IntToStr(e.allocatedInventory[ks[i]])],
             <<";">>))

\* Event::toString
EventToString(e) ==
    IntToStr(e.eventId) \o <<",">> \o e.name \o <<",">> \o e.date \o <<",">>
        \o e.time \o <<",">> \o e.location \o <<",">> \o e.description \o <<",">>
        \o e.category \o <<",">> \o IntToStr(e.status) \o <<",">>
        \o attendeesToString(e) \o <<",">> \o inventoryToString(e)

\* The two trailing fields as the peek() logic of Event::fromString reads them
\* from the stream left after the status field (whose getline has consumed the
\* comma that follows it).
EventTrailingFields(st, segment) ==
    Local(Peek(st), LAMBDA p1 :
    Local(IF p1.c = ","
          THEN Local(Peek(GetLine(p1.st, segment, ",").st), LAMBDA p2 :
                   IF p2.c # "," /\ Good(p2.st)
                   THEN Local(GetLine(p2.st, <<>>, ","), LAMBDA gB :
                            [st |-> gB.st, attendeesStr |-> gB.str])
                   ELSE [st |-> p2.st, attendeesStr |-> <<>>])
          ELSE [st |-> p1.st, attendeesStr |-> <<>>],
          LAMBDA afterAtt :
        [attendeesStr |-> afterAtt.attendeesStr,
         inventoryStr |->
             IF Good(afterAtt.st)
             THEN Local(Peek(afterAtt.st), LAMBDA p3 :
                      IF p3.c # EOF THEN GetLine(p3.st, <<>>, NL).str ELSE <<>>)
             ELSE <<>>]))

\* the attendee-id loop: stoi on every non-empty segment, outside any try
RECURSIVE ParseAttendeeIds(_)
ParseAttendeeIds(segs) ==
    IF segs = <<>> THEN [ok |-> TRUE, ids |-> <<>>]
    ELSE IF Head(segs) = <<>> THEN ParseAttendeeIds(Tail(segs))
    ELSE Local(Stoi(Head(segs)), LAMBDA v :
         Local(ParseAttendeeIds(Tail(segs)), LAMBDA rest :
             IF ~v.ok \/ ~rest.ok THEN [ok |-> FALSE, ids |-> <<>>]
             ELSE [ok |-> TRUE, ids |-> <<v.val>> \o rest.ids]))

\* the allocation loop: a segment without ':' is passed over in silence, a
\* pair with a failed stoi is passed over with a warning (the value is
\* converted before the map is indexed, so no entry is made)
RECURSIVE ParseInventory(_, _, _)
ParseInventory(segs, m, warned) ==
    IF segs = <<>> THEN [map |-> m, diag |-> warned]
    ELSE Local(Head(segs), LAMBDA seg :
         Local(FindFrom(seg, 1, ":"), LAMBDA colonPos :
             IF seg = <<>> \/ colonPos = 0 THEN ParseInventory(Tail(segs), m, warned)
             ELSE Local(Stoi(SubSeq(seg, 1, colonPos - 1)), LAMBDA k :
                  Local(Stoi(SubSeq(seg, colonPos + 1, Len(seg))), LAMBDA v :
                      IF k.ok /\ v.ok
                      THEN ParseInventory(Tail(segs), MapPut(m, k.val, v.val), warned)
                      ELSE ParseInventory(Tail(segs), m, warned + 1)))))

ErrorEvent == MkEvent(0, ERRORSTR, ERRORSTR, ERRORSTR, ERRORSTR, ERRORSTR,
                      <<>>, UPCOMING, <<>>, EmptyMap)

\* Event::fromString.  crash = TRUE: the process ends inside the call.
\*  - a failed stoi of the id or the status reaches the handler, which builds
\*    Event(0, "ERROR", ...) with six arguments: that is the constructor taking
\*    six strings, its first std::string built from the null pointer 0.  The
\*    behaviour is undefined; the library either throws std::logic_error out of
\*    the handler or reads through the null pointer, and both end the process.
\*  - a failed stoi of an attendee id is thrown outside the try block.
EventFromString(str) ==
    Local(GetLine(Stream(str), <<>>, ","), LAMBDA g1 :
    Local(Stoi(g1.str), LAMBDA id :
    Local(GetLine(g1.st, <<>>, ","), LAMBDA g2 :
    Local(GetLine(g2.st, <<>>, ","), LAMBDA g3 :
    Local(GetLine(g3.st, <<>>, ","), LAMBDA g4 :
    Local(GetLine(g4.st, <<>>, ","), LAMBDA g5 :
    Local(GetLine(g5.st, <<>>, ","), LAMBDA g6 :
    Local(GetLine(g6.st, <<>>, ","), LAMBDA g7 :
    Local(GetLine(g7.st, g1.str, ","), LAMBDA g8 :
    Local(Stoi(g8.str), LAMBDA stat :
    Local(EventTrailingFields(g8.st, g8.str), LAMBDA tr :
    Local(ParseAttendeeIds(Split(tr.attendeesStr, ";")), LAMBDA atts :
    Local(ParseInventory(Split(tr.inventoryStr, ";"), EmptyMap, 0), LAMBDA inv :
        IF ~id.ok \/ ~stat.ok
        THEN [rec |-> ErrorEvent, diag |-> 1, crash |-> TRUE]
        ELSE IF ~atts.ok
        THEN [rec |-> ErrorEvent, diag |-> 0, crash |-> TRUE]
        ELSE [rec |-> MkEvent(id.val, g2.str, g3.str, g4.str, g5.str, g6.str,
                              g7.str, stat.val, atts.ids, inv.map),
              diag |-> inv.diag, crash |-> FALSE]
    )))))))))))))

(***************************************************************************)
(* The system: the four stores, the static id counters, the four files,    *)
(* and the position of the process (pc):                                   *)
(*   "boot"     a fresh process, before loadData                           *)
(*   "loaded"   loadData has returned                                      *)
(*   "running"  seedInitialData has returned, the menus run                *)
(*   "terminated", "segfault"  the process has ended abnormally            *)
(* run counts the processes started so far.                                *)
(* History variables: op (the last operation, its outcome and, unless it   *)
(* was turned away before it changed anything, its inputs),                *)
(* diag (warnings written to cerr by the last loadData, per table), saved  *)
(* (the stores as they were when the process exited), codec (the codec     *)
(* under test in SpecCodec).                                               *)
(***************************************************************************)
VARIABLES users, events, inventory, allAttendees,
          nextUserId, nextEventId, nextItemId, nextAttendeeId,
          usersFile, eventsFile, inventoryFile, attendeesFile,
          pc, run, op, diag, saved, codec

stores == <<users, events, inventory, allAttendees>>
counters == <<nextUserId, nextEventId, nextItemId, nextAttendeeId>>
files == <<usersFile, eventsFile, inventoryFile, attendeesFile>>
vars == <<users, events, inventory, allAttendees,
          nextUserId, nextEventId, nextItemId, nextAttendeeId,
          usersFile, eventsFile, inventoryFile, attendeesFile,
          pc, run, op, diag, saved, codec>>

NoOp == [name |-> "none", ok |-> FALSE, ev |-> 0, item |-> 0, qty |-> 0, who |-> <<>>]
MkOp(n, ok, ev, item, qty, who) ==
    [name |-> n, ok |-> ok, ev |-> ev, item |-> item, qty |-> qty, who |-> who]
\* a deallocation: actual is the amount the handler reports as deallocated
MkDeallocOp(ok, ev, item, qty, actual) ==
    [name |-> "deallocate", ok |-> ok, ev |-> ev, item |-> item, qty |-> qty,
     who |-> <<>>, actual |-> actual]
\* a check-in: att is the attendee id entered, already tells that the handler
\* reported the attendee as already checked in
MkCheckInOp(ok, ev, att, already) ==
    [name |-> "checkIn", ok |-> ok, ev |-> ev, item |-> 0, qty |-> 0,
     who |-> <<>>, att |-> att, already |-> already]
\* what updateEventStatus did: the status found and the status chosen
MkStatusOp(ok, ev, from, to) ==
    [name |-> "updateEventStatus", ok |-> ok, ev |-> ev, item |-> 0, qty |-> 0,
     who |-> <<>>, from |-> from, to |-> to]
NoDiag == [users |-> 0, events |-> 0, inventory |-> 0, attendees |-> 0]
NoSnapshot == <<>>
NoCodec == [pc |-> "off"]

Range(f) == {f[i] : i \in DOMAIN f}

(***************************************************************************)
(* Text the program itself supplies (seedInitialData) and the text the     *)
(* model enters at the prompts.                                            *)
(***************************************************************************)
SeedAdminName == <<"a", "d", "m", "i", "n">>
SeedAdminPass == <<"a", "d", "m", "i", "n", "p", "a", "s", "s">>
SeedUser1Name == <<"u", "s", "e", "r", "1">>
SeedUser1Pass == <<"u", "s", "e", "r", "1", "p", "a", "s", "s">>
SeedUser2Name == <<"u", "s", "e", "r", "2">>
SeedUser2Pass == <<"u", "s", "e", "r", "2", "p", "a", "s", "s">>
SeedEvent1Name == <<"T", "e", "c", "h", " ", "C", "o", "n", "f", "e", "r", "e",
    "n", "c", "e", " ", "2", "0", "2", "5">>
SeedEvent1Date == <<"2", "0", "2", "5", "-", "1", "0", "-", "2", "0">>
SeedEvent1Time == <<"0", "9", ":", "0", "0">>
SeedEvent1Loc == <<"G", "r", "a", "n", "d", " ", "H", "a", "l", "l">>
SeedEvent1Desc == <<"A", "n", "n", "u", "a", "l", " ", "t", "e", "c", "h", " ",
    "c", "o", "n", "f", "e", "r", "e", "n", "c", "e">>
SeedEvent1Cat == <<"C", "o", "n", "f", "e", "r", "e", "n", "c", "e">>
SeedEvent2Name == <<"S", "u", "m", "m", "e", "r", " ", "M", "u", "s", "i", "c",
    " ", "F", "e", "s", "t", "i", "v", "a", "l">>
SeedEvent2Date == <<"2", "0", "2", "5", "-", "0", "7", "-", "1", "5">>
SeedEvent2Time == <<"1", "4", ":", "0", "0">>
SeedEvent2Loc == <<"C", "i", "t", "y", " ", "P", "a", "r", "k">>
SeedEvent2Desc == <<"O", "u", "t", "d", "o", "o", "r", " ", "m", "u", "s", "i",
    "c", " ", "e", "v", "e", "n", "t">>
SeedEvent2Cat == <<"S", "o", "c", "i", "a", "l">>
SeedItem1Name == <<"P", "r", "o", "j", "e", "c", "t", "o", "r">>
SeedItem1Desc == <<"H", "D", " ", "P", "r", "o", "j", "e", "c", "t", "o",
    "r">>
SeedItem2Name == <<"C", "h", "a", "i", "r", "s">>
SeedItem2Desc == <<"S", "t", "a", "n", "d", "a", "r", "d", " ", "c", "h", "a",
    "i", "r", "s">>
InName == <<"G", "a", "l", "a">>
InDate == <<"2", "0", "2", "6", "-", "0", "1", "-", "3", "1">>
InTime == <<"1", "8", ":", "3", "0">>
InLoc == <<"H", "a", "l", "l">>
InDesc == <<"D", "i", "n", "n", "e", "r">>
InCat == <<"S", "o", "c", "i", "a", "l">>
InContact == <<"a", "@", "b">>
SeedItem1Qty == 5
SeedItem2Qty == 100

(***************************************************************************)
(* Repository facade: save.  Every export truncates the file and writes    *)
(* one line per record.                                                    *)
(***************************************************************************)
UsersLines(us) == [i \in 1..Len(us) |-> UserToString(us[i])]
EventsLines(es) == [i \in 1..Len(es) |-> EventToString(es[i])]
InventoryLines(inv) == [i \in 1..Len(inv) |-> ItemToString(inv[i])]
AttendeesLines(as) == [i \in 1..Len(as) |-> AttendeeToString(as[i])]

(***************************************************************************)
(* Repository facade: load.  Each loader reads its file line by line and   *)
(* passes over empty lines.                                                *)
(***************************************************************************)
\* System::loadUsers: a nullptr from the codec is not stored
RECURSIVE loadUsers(_, _)
loadUsers(lines, acc) ==
    IF lines = <<>> THEN acc
    ELSE IF Head(lines) = <<>> THEN loadUsers(Tail(lines), acc)
    ELSE Local(UserFromString(Head(lines)), LAMBDA r :
             loadUsers(Tail(lines),
                 [store |-> IF r.ok THEN Append(acc.store, r.rec) ELSE acc.store,
                  next |-> IF r.ok THEN ObserveId(acc.next, r.rec.userId) ELSE acc.next,
                  diag |-> acc.diag + r.diag]))

\* System::loadEvents: whatever the codec returns is stored; the load stops
\* where the codec ends the process
RECURSIVE loadEvents(_, _)
loadEvents(lines, acc) ==
    IF lines = <<>> THEN acc
    ELSE IF Head(lines) = <<>> THEN loadEvents(Tail(lines), acc)
    ELSE Local(EventFromString(Head(lines)), LAMBDA r :
             IF r.crash
             THEN [acc EXCEPT !.diag = acc.diag + r.diag,
                              !.crash = IF r.diag > 0 THEN "undefined" ELSE "uncaught"]
             ELSE loadEvents(Tail(lines),
                     [store |-> Append(acc.store, r.rec),
                      next |-> ObserveId(acc.next, r.rec.eventId),
                      diag |-> acc.diag + r.diag,
                      crash |-> acc.crash]))

\* System::loadInventory: whatever the codec returns is stored
RECURSIVE loadInventory(_, _)
loadInventory(lines, acc) ==
    IF lines = <<>> THEN acc
    ELSE IF Head(lines) = <<>> THEN loadInventory(Tail(lines), acc)
    ELSE Local(ItemFromString(Head(lines)), LAMBDA r :
             loadInventory(Tail(lines),
                 [store |-> Append(acc.store, r.rec),
                  next |-> ObserveId(acc.next, r.rec.itemId),
                  diag |-> acc.diag + r.diag]))

\* System::loadAttendees: whatever the codec returns is stored
RECURSIVE loadAttendees(_, _)
loadAttendees(lines, acc) ==
    IF lines = <<>> THEN acc
    ELSE IF Head(lines) = <<>> THEN loadAttendees(Tail(lines), acc)
    ELSE Local(AttendeeFromString(Head(lines)), LAMBDA r :
             loadAttendees(Tail(lines),
                 [store |-> Append(acc.store, r.rec),
                  next |-> ObserveId(acc.next, r.rec.attendeeId),
                  diag |-> acc.diag + r.diag]))

\* the largest id of a store, 0 for an empty one (the maxId loops of loadData)
RECURSIVE MaxIdOf(_, _)
MaxIdOf(ids, maxId) ==
    IF ids = <<>> THEN maxId
    ELSE MaxIdOf(Tail(ids), IF Head(ids) > maxId THEN Head(ids) ELSE maxId)

\* System::findInventoryItemById: the index of the first item with the id, 0
\* for nullptr
findInventoryItemById(inv, itemId) ==
    IF \E i \in 1..Len(inv) : inv[i].itemId = itemId
    THEN CHOOSE i \in 1..Len(inv) :
            inv[i].itemId = itemId /\ \A k \in 1..(i - 1) : inv[k].itemId # itemId
    ELSE 0

\* System::findEventById, likewise
findEventById(es, eventId) ==
    IF \E i \in 1..Len(es) : es[i].eventId = eventId
    THEN CHOOSE i \in 1..Len(es) :
            es[i].eventId = eventId /\ \A k \in 1..(i - 1) : es[k].eventId # eventId
    ELSE 0

\* item->allocatedQuantity += invPair.second for the pairs of one event
RECURSIVE AddPairs(_, _, _)
AddPairs(inv, m, keys) ==
    IF keys = <<>> THEN inv
    ELSE Local(findInventoryItemById(inv, Head(keys)), LAMBDA i :
             AddPairs(IF i = 0 THEN inv
                      ELSE [inv EXCEPT ![i].allocatedQuantity = @ + m[Head(keys)]],
                      m, Tail(keys)))

RECURSIVE AddEvents(_, _)
AddEvents(inv, es) ==
    IF es = <<>> THEN inv
    ELSE AddEvents(AddPairs(inv, Head(es).allocatedInventory,
                            SortedKeys(DOMAIN Head(es).allocatedInventory)),
                   Tail(es))

\* the pass as it would run without the reset: the counts read from the
\* inventory file stay and the events' quantities are added on top
ReconcileOnTopOfFile(inv, es) == AddEvents(inv, es)

\* the reconciliation pass of loadData: every allocatedQuantity is reset to 0
\* and then rebuilt from the events' allocation maps
Reconcile(inv, es) ==
    AddEvents([i \in 1..Len(inv) |-> [inv[i] EXCEPT !.allocatedQuantity = 0]], es)

\* the sum over all events of the event's entry for itemId
RECURSIVE SumAllocated(_, _)
SumAllocated(es, itemId) ==
    IF es = <<>> THEN 0
    ELSE MapGet(Head(es).allocatedInventory, itemId) + SumAllocated(Tail(es), itemId)

(***************************************************************************)
(* Allocation engine: the methods of InventoryItem and Event.              *)
(***************************************************************************)
getAvailableQuantity(it) == it.totalQuantity - it.allocatedQuantity

\* allocate as it would run if it compared the request with the total in
\* place of the available quantity
ItemAllocateAgainstTotal(it, quantityToAllocate) ==
    IF quantityToAllocate <= 0 THEN [ok |-> FALSE, item |-> it]
    ELSE IF quantityToAllocate <= it.totalQuantity
    THEN [ok |-> TRUE,
          item |-> [it EXCEPT !.allocatedQuantity = @ + quantityToAllocate]]
    ELSE [ok |-> FALSE, item |-> it]

\* InventoryItem::allocate
ItemAllocate(it, quantityToAllocate) ==
    IF quantityToAllocate <= 0 THEN [ok |-> FALSE, item |-> it]
    ELSE IF quantityToAllocate <= getAvailableQuantity(it)
    THEN [ok |-> TRUE,
          item |-> [it EXCEPT !.allocatedQuantity = @ + quantityToAllocate]]
    ELSE [ok |-> FALSE, item |-> it]

\* deallocate as it would run if it reported success and kept the count
ItemDeallocateKeepsCount(it, quantityToDeallocate) ==
    IF quantityToDeallocate <= 0 THEN [ok |-> FALSE, item |-> it]
    ELSE [ok |-> quantityToDeallocate <= it.allocatedQuantity, item |-> it]

\* InventoryItem::deallocate
ItemDeallocate(it, quantityToDeallocate) ==
    IF quantityToDeallocate <= 0 THEN [ok |-> FALSE, item |-> it]
    ELSE IF quantityToDeallocate <= it.allocatedQuantity
    THEN [ok |-> TRUE,
          item |-> [it EXCEPT !.allocatedQuantity = @ - quantityToDeallocate]]
    ELSE [ok |-> FALSE, item |-> it]

\* setTotalQuantity as it would run without the test against the allocated
\* quantity
ItemSetTotalQuantityUnchecked(it, newTotalQuantity) ==
    IF newTotalQuantity < 0 THEN it
    ELSE [it EXCEPT !.totalQuantity = newTotalQuantity]

\* InventoryItem::setTotalQuantity
ItemSetTotalQuantity(it, newTotalQuantity) ==
    IF newTotalQuantity < 0 THEN it
    ELSE IF newTotalQuantity < it.allocatedQuantity THEN it
    ELSE [it EXCEPT !.totalQuantity = newTotalQuantity]

\* allocateInventoryItem as it would run if it assigned the quantity in place
\* of adding it
allocateInventoryItemOverwrites(e, itmId, quantity) ==
    IF quantity > 0
    THEN [e EXCEPT !.allocatedInventory = MapPut(@, itmId, quantity)]
    ELSE e

\* Event::allocateInventoryItem
allocateInventoryItem(e, itmId, quantity) ==
    IF quantity > 0
    THEN [e EXCEPT !.allocatedInventory =
                       MapPut(@, itmId, MapGet(@, itmId) + quantity)]
    ELSE e

\* deallocateInventoryItem as it would run without the min(): the request is
\* taken off the entry whatever the entry holds
deallocateInventoryItemUnclamped(e, itmId, quantityToDeallocate) ==
    IF quantityToDeallocate <= 0 THEN [event |-> e, actual |-> 0]
    ELSE IF itmId \in DOMAIN e.allocatedInventory
    THEN Local(e.allocatedInventory[itmId] - quantityToDeallocate, LAMBDA left :
             [event |-> [e EXCEPT !.allocatedInventory =
                                      IF left <= 0 THEN MapErase(@, itmId)
                                      ELSE MapPut(@, itmId, left)],
              actual |-> quantityToDeallocate])
    ELSE [event |-> e, actual |-> 0]

\* deallocateInventoryItem as it would run without the erase of an entry
\* that has reached 0
deallocateInventoryItemKeepsEntry(e, itmId, quantityToDeallocate) ==
    IF quantityToDeallocate <= 0 THEN [event |-> e, actual |-> 0]
    ELSE IF itmId \in DOMAIN e.allocatedInventory
    THEN Local(e.allocatedInventory[itmId], LAMBDA currentQty :
         Local(IF currentQty < quantityToDeallocate
               THEN currentQty ELSE quantityToDeallocate, LAMBDA actualDeallocated :
             [event |-> [e EXCEPT !.allocatedInventory =
                                      MapPut(@, itmId, currentQty - actualDeallocated)],
              actual |-> actualDeallocated]))
    ELSE [event |-> e, actual |-> 0]

\* Event::deallocateInventoryItem: the event afterwards and the amount removed
deallocateInventoryItem(e, itmId, quantityToDeallocate) ==
    IF quantityToDeallocate <= 0 THEN [event |-> e, actual |-> 0]
    ELSE IF itmId \in DOMAIN e.allocatedInventory
    THEN Local(e.allocatedInventory[itmId], LAMBDA currentQty :
         Local(IF currentQty < quantityToDeallocate
               THEN currentQty ELSE quantityToDeallocate, LAMBDA actualDeallocated :
         Local(currentQty - actualDeallocated, LAMBDA left :
             [event |-> [e EXCEPT !.allocatedInventory =
                                      IF left <= 0 THEN MapErase(@, itmId)
                                      ELSE MapPut(@, itmId, left)],
              actual |-> actualDeallocated])))
    ELSE [event |-> e, actual |-> 0]

(***************************************************************************)
(* Registration engine: the methods of Event.                              *)
(***************************************************************************)
\* Event::addAttendee
addAttendee(e, attId) ==
    IF \E i \in 1..Len(e.attendeeIds) : e.attendeeIds[i] = attId THEN e
    ELSE [e EXCEPT !.attendeeIds = Append(@, attId)]

\* removeAttendee as it would run if it left the list alone
removeAttendeeKeepsId(e, attId) == e

\* Event::removeAttendee: the first occurrence of the id is erased
removeAttendee(e, attId) ==
    IF \E i \in 1..Len(e.attendeeIds) : e.attendeeIds[i] = attId
    THEN Local(CHOOSE i \in 1..Len(e.attendeeIds) :
                   /\ e.attendeeIds[i] = attId
                   /\ \A k \in 1..(i - 1) : e.attendeeIds[k] # attId, LAMBDA at :
             [e EXCEPT !.attendeeIds =
                 SubSeq(@, 1, at - 1) \o SubSeq(@, at + 1, Len(@))])
    ELSE e

\* checkIn as it would run if it flipped the flag
AttendeeCheckInToggles(a) == [a EXCEPT !.isCheckedIn = ~@]

\* Attendee::checkIn
AttendeeCheckIn(a) == IF ~a.isCheckedIn THEN [a EXCEPT !.isCheckedIn = TRUE] ELSE a

\* the status test of registerAttendeeForEvent as it would run if it let
\* every event through
RegistrationClosedNever(e) == FALSE

\* registerAttendeeForEvent: the event no longer takes registrations
RegistrationClosed(e) == e.status = CANCELED \/ e.status = COMPLETED

\* System::findAttendeeInMasterList: the index of the first attendee with the
\* id, 0 when there is none
findAttendeeInMasterList(atts, attendeeId) ==
    IF \E i \in 1..Len(atts) : atts[i].attendeeId = attendeeId
    THEN CHOOSE i \in 1..Len(atts) :
             /\ atts[i].attendeeId = attendeeId
             /\ \A k \in 1..(i - 1) : atts[k].attendeeId # attendeeId
    ELSE 0

\* the index of the first attendee whose lower-cased name is that of uname and
\* whose eventIdRegisteredFor is eventId, 0 when there is none
FindAttendeeByNameAndEvent(atts, uname, eventId) ==
    LET hit(i) == toLower(atts[i].name) = toLower(uname)
                      /\ atts[i].eventIdRegisteredFor = eventId
    IN  IF \E i \in 1..Len(atts) : hit(i)
        THEN CHOOSE i \in 1..Len(atts) : hit(i) /\ \A k \in 1..(i - 1) : ~hit(k)
        ELSE 0

(***************************************************************************)
(* Process lifecycle: main() runs loadData, seedInitialData and the menus; *)
(* leaving the main menu destroys the System, whose destructor saves.      *)
(***************************************************************************)
SaveAll ==
    /\ usersFile' = UsersLines(users')
    /\ eventsFile' = EventsLines(events')
    /\ inventoryFile' = InventoryLines(inventory')
    /\ attendeesFile' = AttendeesLines(allAttendees')

Ids(store, field) == [i \in 1..Len(store) |-> store[i][field]]

\* System::loadData: the four loaders, the re-seeding of the id counters and
\* the reconciliation pass.  A process that ends inside loadEvents leaves the
\* stores as far as they were filled.
LoadData ==
    /\ pc = "boot"
    /\ Local(loadUsers(usersFile, [store |-> users, next |-> nextUserId, diag |-> 0]),
             LAMBDA u :
       Local(loadEvents(eventsFile, [store |-> events, next |-> nextEventId,
                                     diag |-> 0, crash |-> "no"]),
             LAMBDA e :
       Local(loadInventory(inventoryFile,
                           [store |-> inventory, next |-> nextItemId, diag |-> 0]),
             LAMBDA i :
       Local(loadAttendees(attendeesFile,
                           [store |-> allAttendees, next |-> nextAttendeeId, diag |-> 0]),
             LAMBDA a :
           IF e.crash # "no"
           THEN /\ users' = u.store
                /\ events' = e.store
                /\ nextUserId' = u.next
                /\ nextEventId' = e.next
                /\ UNCHANGED <<inventory, allAttendees, nextItemId, nextAttendeeId>>
                /\ diag' = [users |-> u.diag, events |-> e.diag,
                            inventory |-> 0, attendees |-> 0]
                /\ pc' \in (IF e.crash = "undefined" THEN {"terminated", "segfault"}
                            ELSE {"terminated"})
                /\ op' = MkOp("loadData", FALSE, 0, 0, 0, <<>>)
           ELSE /\ users' = u.store
                /\ events' = e.store
                /\ inventory' = Reconcile(i.store, e.store)
                /\ allAttendees' = a.store
                /\ nextUserId' = initNextId(u.next, MaxIdOf(Ids(u.store, "userId"), 0))
                /\ nextEventId' = initNextId(e.next, MaxIdOf(Ids(e.store, "eventId"), 0))
                /\ nextItemId' = initNextId(i.next, MaxIdOf(Ids(i.store, "itemId"), 0))
                /\ nextAttendeeId' =
                       initNextId(a.next, MaxIdOf(Ids(a.store, "attendeeId"), 0))
                /\ diag' = [users |-> u.diag, events |-> e.diag,
                            inventory |-> i.diag, attendees |-> a.diag]
                /\ pc' = "loaded"
                /\ op' = MkOp("loadData", TRUE, 0, 0, 0, <<>>)))))
    /\ UNCHANGED <<files, run, saved, codec>>

\* System::seedInitialData: each empty store gets its initial records, and
\* all four files are saved when anything was seeded
SeedInitialData ==
    /\ pc = "loaded"
    /\ LET su == users = <<>>
           se == events = <<>>
           si == inventory = <<>>
       IN  /\ users' = IF su
                       THEN <<MkUser(nextUserId, SeedAdminName, SeedAdminPass, ADMIN),
                              MkUser(nextUserId + 1, SeedUser1Name, SeedUser1Pass,
                                     REGULAR_USER),
                              MkUser(nextUserId + 2, SeedUser2Name, SeedUser2Pass,
                                     REGULAR_USER)>>
                       ELSE users
           /\ nextUserId' = IF su THEN nextUserId + 3 ELSE nextUserId
           /\ events' = IF se
                        THEN <<MkEvent(nextEventId, SeedEvent1Name, SeedEvent1Date,
                                       SeedEvent1Time, SeedEvent1Loc, SeedEvent1Desc,
                                       SeedEvent1Cat, UPCOMING, <<>>, EmptyMap),
                               MkEvent(nextEventId + 1, SeedEvent2Name, SeedEvent2Date,
                                       SeedEvent2Time, SeedEvent2Loc, SeedEvent2Desc,
                                       SeedEvent2Cat, UPCOMING, <<>>, EmptyMap)>>
                        ELSE events
           /\ nextEventId' = IF se THEN nextEventId + 2 ELSE nextEventId
           /\ inventory' = IF si
                           THEN <<MkItem(nextItemId, SeedItem1Name, SeedItem1Qty, 0,
                                         SeedItem1Desc),
                                  MkItem(nextItemId + 1, SeedItem2Name, SeedItem2Qty, 0,
                                         SeedItem2Desc)>>
                           ELSE inventory
           /\ nextItemId' = IF si THEN nextItemId + 2 ELSE nextItemId
           /\ UNCHANGED <<allAttendees, nextAttendeeId>>
           /\ IF su \/ se \/ si THEN SaveAll ELSE UNCHANGED files
    /\ pc' = "running"
    /\ op' = MkOp("seedInitialData", TRUE, 0, 0, 0, <<>>)
    /\ saved' = NoSnapshot
    /\ UNCHANGED <<run, diag, codec>>

\* The main menu is open.  Runs are counted up to MaxRuns: the menu of the
\* last run is reached and then left alone.
Running == pc = "running" /\ run < MaxRuns

\* Leaving the main menu: System::~System saves all four tables and the
\* process ends; the next process starts with empty stores and the static
\* counters at 1.  saved remembers the stores the process held.
Exit ==
    /\ Running
    /\ run' = run + 1
    /\ usersFile' = UsersLines(users)
    /\ eventsFile' = EventsLines(events)
    /\ inventoryFile' = InventoryLines(inventory)
    /\ attendeesFile' = AttendeesLines(allAttendees)
    /\ saved' = [users |-> users, events |-> events, inventory |-> inventory,
                 allAttendees |-> allAttendees]
    /\ users' = <<>>
    /\ events' = <<>>
    /\ inventory' = <<>>
    /\ allAttendees' = <<>>
    /\ nextUserId' = 1
    /\ nextEventId' = 1
    /\ nextItemId' = 1
    /\ nextAttendeeId' = 1
    /\ pc' = "boot"
    /\ op' = MkOp("exit", TRUE, 0, 0, 0, <<>>)
    /\ UNCHANGED <<diag, codec>>

(***************************************************************************)
(* Menu handlers.  The session (login, logout) changes no store and no     *)
(* file, so the user who acts is an input of each handler: an admin        *)
(* handler needs an ADMIN account to log in with, a user handler runs for  *)
(* a REGULAR_USER account of the store.                                    *)
(***************************************************************************)
AdminLoggedIn == \E u \in Range(users) : u.role = ADMIN
RegularUsers == {u \in Range(users) : u.role = REGULAR_USER}
EventIdsInStore == {e.eventId : e \in Range(events)}
ItemIdsInStore == {i.itemId : i \in Range(inventory)}

\* System::createEvent
createEvent ==
    /\ Running
    /\ AdminLoggedIn
    /\ Len(events) < MaxEvents
    /\ nextEventId <= MaxEventId
    /\ events' = Append(events, MkEvent(nextEventId, InName, InDate, InTime, InLoc,
                                        InDesc, InCat, UPCOMING, <<>>, EmptyMap))
    /\ nextEventId' = PostIncrement(nextEventId)
    /\ eventsFile' = EventsLines(events')
    /\ op' = MkOp("createEvent", TRUE, nextEventId, 0, 0, <<>>)
    /\ UNCHANGED <<users, inventory, allAttendees, nextUserId, nextItemId,
                   nextAttendeeId, usersFile, inventoryFile, attendeesFile,
                   pc, run, diag, saved, codec>>

\* The std::map of an Event that was the source of a move assignment: the
\* assignment takes over the nodes of its source (the allocator propagates and
\* the cost may not depend on the size of the source), which is left empty.
MovedFromMap(m) == EmptyMap

\* item->deallocate(pair.second) for every pair of the map, keys ascending
RECURSIVE ReturnPairs(_, _, _)
ReturnPairs(inv, m, keys) ==
    IF keys = <<>> THEN inv
    ELSE Local(findInventoryItemById(inv, Head(keys)), LAMBDA i :
             ReturnPairs(IF i = 0 THEN inv
                         ELSE [inv EXCEPT ![i] = ItemDeallocate(@, m[Head(keys)]).item],
                         m, Tail(keys)))

\* deleteEvent with an unstable removal: the last event is moved into the
\* place of the deleted one
deleteEventUnstable(eventId) ==
    /\ Running
    /\ AdminLoggedIn
    /\ Local(findEventById(events, eventId), LAMBDA e :
           IF e = 0
           THEN /\ op' = MkOp("deleteEvent", FALSE, eventId, 0, 0, <<>>)
                /\ UNCHANGED <<stores, files>>
           ELSE /\ inventory' = ReturnPairs(inventory, events[e].allocatedInventory,
                                            SortedKeys(DOMAIN events[e].allocatedInventory))
                /\ allAttendees' =
                       SelectSeq(allAttendees,
                                 LAMBDA a : a.eventIdRegisteredFor # eventId)
                /\ events' = SubSeq([events EXCEPT ![e] = events[Len(events)]],
                                    1, Len(events) - 1)
                /\ eventsFile' = EventsLines(events')
                /\ inventoryFile' = InventoryLines(inventory')
                /\ attendeesFile' = AttendeesLines(allAttendees')
                /\ op' = MkOp("deleteEvent", TRUE, eventId, 0, 0, <<>>)
                /\ UNCHANGED <<users, usersFile>>)
    /\ UNCHANGED <<counters, pc, run, diag, saved, codec>>

\* System::deleteEvent.  remove_if moves the events that stay to the front and
\* returns the new logical end `it`; the handler then reads it->allocatedInventory.
\* The element at `it` is the deleted event only when no event that stays
\* follows it; otherwise it is an event that remove_if has moved from.
deleteEvent(eventId) ==
    /\ Running
    /\ AdminLoggedIn
    /\ Local(SelectSeq(events, LAMBDA e : e.eventId # eventId), LAMBDA kept :
           IF Len(kept) = Len(events)
           THEN /\ op' = MkOp("deleteEvent", FALSE, eventId, 0, 0, <<>>)
                /\ UNCHANGED <<stores, files>>
           ELSE Local(events[Len(kept) + 1], LAMBDA atIt :
                Local(IF atIt.eventId = eventId THEN atIt.allocatedInventory
                      ELSE MovedFromMap(atIt.allocatedInventory), LAMBDA m :
                        /\ inventory' = ReturnPairs(inventory, m, SortedKeys(DOMAIN m))
                        /\ allAttendees' =
                               SelectSeq(allAttendees,
                                         LAMBDA a : a.eventIdRegisteredFor # eventId)
                        /\ events' = kept
                        /\ eventsFile' = EventsLines(events')
                        /\ inventoryFile' = InventoryLines(inventory')
                        /\ attendeesFile' = AttendeesLines(allAttendees')
                        /\ op' = MkOp("deleteEvent", TRUE, eventId, 0, 0, <<>>)
                        /\ UNCHANGED <<users, usersFile>>)))
    /\ UNCHANGED <<counters, pc, run, diag, saved, codec>>

\* System::updateInventoryItemDetails, choice 2 (total quantity): the file is
\* saved whether or not setTotalQuantity took the value
updateInventoryItemDetails(itemId, newTotal) ==
    /\ Running
    /\ AdminLoggedIn
    /\ Local(findInventoryItemById(inventory, itemId), LAMBDA i :
           IF i = 0
           THEN /\ op' = MkOp("setTotalQuantity", FALSE, 0, itemId, 0, <<>>)
                /\ UNCHANGED <<inventory, inventoryFile>>
           ELSE /\ inventory' = [inventory EXCEPT ![i] = ItemSetTotalQuantity(@, newTotal)]
                /\ inventoryFile' = InventoryLines(inventory')
                /\ op' = MkOp("setTotalQuantity",
                              inventory'[i].totalQuantity = newTotal, 0, itemId,
                              newTotal, <<>>))
    /\ UNCHANGED <<users, events, allAttendees, counters, usersFile, eventsFile,
                   attendeesFile, pc, run, diag, saved, codec>>

\* The quantities entered at the allocate prompt: a request that the item
\* grants is entered only while the event's entry for the item stays within
\* MaxQty; a request that the item turns away is entered whatever its size.
AllocationInBounds(eventId, itemId, quantity) ==
    Local(findEventById(events, eventId), LAMBDA e :
    Local(findInventoryItemById(inventory, itemId), LAMBDA i :
        e # 0 /\ i # 0 /\ ItemAllocate(inventory[i], quantity).ok
            => MapGet(events[e].allocatedInventory, itemId) + quantity <= MaxQty))

\* System::trackInventoryAllocationToEvent, choice 1 (allocate)
trackAllocate(eventId, itemId, quantity) ==
    /\ Running
    /\ AdminLoggedIn
    /\ Local(findEventById(events, eventId), LAMBDA e :
       Local(findInventoryItemById(inventory, itemId), LAMBDA i :
           IF e = 0
           THEN /\ op' = MkOp("allocate", FALSE, 0, 0, 0, <<>>)
                /\ UNCHANGED <<inventory, events, inventoryFile, eventsFile>>
           ELSE IF i = 0
           THEN /\ op' = MkOp("allocate", FALSE, 0, 0, 0, <<>>)
                /\ UNCHANGED <<inventory, events, inventoryFile, eventsFile>>
           ELSE Local(ItemAllocate(inventory[i], quantity), LAMBDA r :
                    IF r.ok
                    THEN /\ inventory' = [inventory EXCEPT ![i] = r.item]
                         /\ events' = [events EXCEPT ![e] =
                                          allocateInventoryItem(@, r.item.itemId, quantity)]
                         /\ inventoryFile' = InventoryLines(inventory')
                         /\ eventsFile' = EventsLines(events')
                         /\ op' = MkOp("allocate", TRUE, eventId, itemId, quantity, <<>>)
                    ELSE /\ op' = MkOp("allocate", FALSE, 0, itemId, quantity, <<>>)
                         /\ UNCHANGED <<inventory, events, inventoryFile,
                                        eventsFile>>)))
    /\ UNCHANGED <<users, allAttendees, counters, usersFile, attendeesFile,
                   pc, run, diag, saved, codec>>

\* System::trackInventoryAllocationToEvent, choice 2 (deallocate)
trackDeallocate(eventId, itemId, quantity) ==
    /\ Running
    /\ AdminLoggedIn
    /\ Local(findEventById(events, eventId), LAMBDA e :
       Local(findInventoryItemById(inventory, itemId), LAMBDA i :
           IF e = 0
           THEN /\ op' = MkOp("deallocate", FALSE, 0, 0, 0, <<>>)
                /\ UNCHANGED <<inventory, events, inventoryFile, eventsFile>>
           ELSE IF i = 0 \/ itemId \notin DOMAIN events[e].allocatedInventory
           THEN /\ op' = MkOp("deallocate", FALSE, 0, 0, 0, <<>>)
                /\ UNCHANGED <<inventory, events, inventoryFile, eventsFile>>
           ELSE Local(deallocateInventoryItem(events[e], inventory[i].itemId, quantity),
                      LAMBDA d :
                    IF d.actual > 0
                    THEN /\ events' = [events EXCEPT ![e] = d.event]
                         /\ inventory' = [inventory EXCEPT ![i] =
                                             ItemDeallocate(@, d.actual).item]
                         /\ inventoryFile' = InventoryLines(inventory')
                         /\ eventsFile' = EventsLines(events')
                         /\ op' = MkDeallocOp(TRUE, eventId, itemId, quantity, d.actual)
                    ELSE \* the event's map is changed in memory and not saved
                         /\ events' = [events EXCEPT ![e] = d.event]
                         /\ op' = MkDeallocOp(FALSE, eventId, itemId, quantity, d.actual)
                         /\ UNCHANGED <<inventory, inventoryFile, eventsFile>>)))
    /\ UNCHANGED <<users, allAttendees, counters, usersFile, attendeesFile,
                   pc, run, diag, saved, codec>>

\* System::registerAttendeeForEvent, for the logged-in regular user who
\* (their username is the attendee name)
registerAttendeeForEvent(who, eventId, contact) ==
    /\ Running
    /\ who \in RegularUsers
    /\ Local(findEventById(events, eventId), LAMBDA e :
       Local(FindAttendeeByNameAndEvent(allAttendees, who.username, eventId),
             LAMBDA forEvent :
       Local(FindAttendeeByNameAndEvent(allAttendees, who.username, 0),
             LAMBDA generic :
           IF e = 0
           THEN /\ op' = MkOp("register", FALSE, 0, 0, 0, <<>>)
                /\ UNCHANGED <<events, allAttendees, nextAttendeeId, eventsFile,
                               attendeesFile>>
           ELSE IF RegistrationClosed(events[e])
           THEN /\ op' = MkOp("register", FALSE, eventId, 0, 0, who.username)
                /\ UNCHANGED <<events, allAttendees, nextAttendeeId, eventsFile,
                               attendeesFile>>
           ELSE /\ IF forEvent # 0
                   THEN /\ events' = [events EXCEPT ![e] =
                                         addAttendee(@, allAttendees[forEvent].attendeeId)]
                        /\ UNCHANGED <<allAttendees, nextAttendeeId>>
                   ELSE IF generic # 0
                   THEN /\ allAttendees' =
                               [allAttendees EXCEPT ![generic].contactInfo = contact]
                        /\ events' = [events EXCEPT ![e] =
                                         addAttendee(@, allAttendees[generic].attendeeId)]
                        /\ UNCHANGED nextAttendeeId
                   ELSE /\ nextAttendeeId <= MaxAttendeeId
                        /\ allAttendees' =
                               Append(allAttendees,
                                      MkAttendee(nextAttendeeId, who.username, contact,
                                                 eventId, FALSE))
                        /\ nextAttendeeId' = PostIncrement(nextAttendeeId)
                        /\ events' = [events EXCEPT ![e] = addAttendee(@, nextAttendeeId)]
                /\ eventsFile' = EventsLines(events')
                /\ attendeesFile' = AttendeesLines(allAttendees')
                /\ op' = MkOp("register", TRUE, eventId, 0, 0, who.username))))
    /\ UNCHANGED <<users, inventory, nextUserId, nextEventId, nextItemId,
                   usersFile, inventoryFile, pc, run, diag, saved, codec>>

\* System::cancelOwnRegistration, for the logged-in regular user who.  The
\* handler keeps the id it found in an int that starts at -1.
cancelOwnRegistration(who, eventId) ==
    /\ Running
    /\ who \in RegularUsers
    /\ Local(findEventById(events, eventId), LAMBDA e :
       Local(FindAttendeeByNameAndEvent(allAttendees, who.username, eventId),
             LAMBDA found :
       Local(IF found = 0 THEN -1 ELSE allAttendees[found].attendeeId,
             LAMBDA attendeeIdToCancel :
           IF e = 0
           THEN /\ op' = MkOp("cancel", FALSE, 0, 0, 0, <<>>)
                /\ UNCHANGED <<events, allAttendees, eventsFile, attendeesFile>>
           ELSE IF attendeeIdToCancel # -1
           THEN /\ events' = [events EXCEPT ![e] = removeAttendee(@, attendeeIdToCancel)]
                /\ allAttendees' =
                       SelectSeq(allAttendees,
                                 LAMBDA a : a.attendeeId # attendeeIdToCancel)
                /\ eventsFile' = EventsLines(events')
                /\ attendeesFile' = AttendeesLines(allAttendees')
                /\ op' = MkOp("cancel", TRUE, eventId, 0, 0, who.username)
           ELSE /\ op' = MkOp("cancel", FALSE, eventId, 0, 0, who.username)
                /\ UNCHANGED <<events, allAttendees, eventsFile, attendeesFile>>)))
    /\ UNCHANGED <<users, inventory, counters, usersFile, inventoryFile,
                   pc, run, diag, saved, codec>>

\* checkInAttendeeForEvent as it would run if it did not compare the
\* attendee's event with the event entered
checkInAttendeeForAnyEvent(eventId, attendeeId) ==
    /\ Running
    /\ AdminLoggedIn
    /\ Local(findEventById(events, eventId), LAMBDA e :
       Local(findAttendeeInMasterList(allAttendees, attendeeId), LAMBDA a :
           IF e = 0
           THEN /\ op' = MkCheckInOp(FALSE, eventId, 0, FALSE)
                /\ UNCHANGED <<allAttendees, attendeesFile>>
           ELSE IF a # 0
           THEN /\ allAttendees' = [allAttendees EXCEPT ![a] = AttendeeCheckIn(@)]
                /\ attendeesFile' = AttendeesLines(allAttendees')
                /\ op' = MkCheckInOp(TRUE, eventId, attendeeId,
                                     allAttendees[a].isCheckedIn)
           ELSE /\ op' = MkCheckInOp(FALSE, eventId, attendeeId, FALSE)
                /\ UNCHANGED <<allAttendees, attendeesFile>>))
    /\ UNCHANGED <<users, events, inventory, counters, usersFile, eventsFile,
                   inventoryFile, pc, run, diag, saved, codec>>

\* System::checkInAttendeeForEvent: the file is saved whether the flag was
\* set now or before
checkInAttendeeForEvent(eventId, attendeeId) ==
    /\ Running
    /\ AdminLoggedIn
    /\ Local(findEventById(events, eventId), LAMBDA e :
       Local(findAttendeeInMasterList(allAttendees, attendeeId), LAMBDA a :
           IF e = 0
           THEN /\ op' = MkCheckInOp(FALSE, eventId, 0, FALSE)
                /\ UNCHANGED <<allAttendees, attendeesFile>>
           ELSE IF a # 0 /\ allAttendees[a].eventIdRegisteredFor = eventId
           THEN /\ allAttendees' = [allAttendees EXCEPT ![a] = AttendeeCheckIn(@)]
                /\ attendeesFile' = AttendeesLines(allAttendees')
                /\ op' = MkCheckInOp(TRUE, eventId, attendeeId,
                                     allAttendees[a].isCheckedIn)
           ELSE /\ op' = MkCheckInOp(FALSE, eventId, attendeeId, FALSE)
                /\ UNCHANGED <<allAttendees, attendeesFile>>))
    /\ UNCHANGED <<users, events, inventory, counters, usersFile, eventsFile,
                   inventoryFile, pc, run, diag, saved, codec>>

\* System::editEventDetails, choices 1 to 6: the field of the event that the
\* choice names takes the text entered (a date or a time is asked for again
\* until it is valid); the events are saved
editEventDetails(eventId, field, new_val) ==
    /\ Running
    /\ AdminLoggedIn
    /\ Local(findEventById(events, eventId), LAMBDA e :
           IF e = 0
           THEN /\ op' = MkOp("editEvent", FALSE, 0, 0, 0, <<>>)
                /\ UNCHANGED <<events, eventsFile>>
           ELSE /\ events' = [events EXCEPT ![e][field] = new_val]
                /\ eventsFile' = EventsLines(events')
                /\ op' = MkOp("editEvent", TRUE, eventId, 0, 0, <<>>))
    /\ UNCHANGED <<users, inventory, allAttendees, counters, usersFile,
                   inventoryFile, attendeesFile, pc, run, diag, saved, codec>>

\* updateEventStatus as it would run with a guard that keeps a COMPLETED or
\* CANCELED event as it is
updateEventStatusGuarded(eventId, status) ==
    /\ Running
    /\ AdminLoggedIn
    /\ Local(findEventById(events, eventId), LAMBDA e :
           IF e = 0
           THEN /\ op' = MkStatusOp(FALSE, eventId, status, status)
                /\ UNCHANGED <<events, eventsFile>>
           ELSE IF events[e].status \in {COMPLETED, CANCELED}
           THEN /\ op' = MkStatusOp(FALSE, eventId, events[e].status, status)
                /\ UNCHANGED <<events, eventsFile>>
           ELSE /\ events' = [events EXCEPT ![e].status = status]
                /\ eventsFile' = EventsLines(events')
                /\ op' = MkStatusOp(TRUE, eventId, events[e].status, status))
    /\ UNCHANGED <<users, inventory, allAttendees, counters, usersFile,
                   inventoryFile, attendeesFile, pc, run, diag, saved, codec>>

\* System::updateEventStatus, choices 1 to 4 (the status that many places
\* after UPCOMING)
updateEventStatus(eventId, status) ==
    /\ Running
    /\ AdminLoggedIn
    /\ Local(findEventById(events, eventId), LAMBDA e :
           IF e = 0
           THEN /\ op' = MkStatusOp(FALSE, eventId, status, status)
                /\ UNCHANGED <<events, eventsFile>>
           ELSE /\ events' = [events EXCEPT ![e].status = status]
                /\ eventsFile' = EventsLines(events')
                /\ op' = MkStatusOp(TRUE, eventId, events[e].status, status))
    /\ UNCHANGED <<users, inventory, allAttendees, counters, usersFile,
                   inventoryFile, attendeesFile, pc, run, diag, saved, codec>>

\* System::updateCurrentLoggedInUserContactInfo, for the logged-in regular
\* user who.  The loop stops at the user's first generic profile and rewrites
\* the contact of every record of theirs it passes; without a generic
\* profile one is appended.
updateCurrentLoggedInUserContactInfo(who, newContact) ==
    /\ Running
    /\ who \in RegularUsers
    /\ Local(FindAttendeeByNameAndEvent(allAttendees, who.username, 0), LAMBDA generic :
       Local([i \in 1..Len(allAttendees) |->
                 IF toLower(allAttendees[i].name) = toLower(who.username)
                        /\ (generic = 0 \/ i <= generic)
                 THEN [allAttendees[i] EXCEPT !.contactInfo = newContact]
                 ELSE allAttendees[i]], LAMBDA rewritten :
           IF generic # 0
           THEN /\ allAttendees' = rewritten
                /\ UNCHANGED nextAttendeeId
           ELSE /\ nextAttendeeId <= MaxAttendeeId
                /\ allAttendees' =
                       Append(rewritten,
                              MkAttendee(nextAttendeeId, who.username, newContact,
                                         0, FALSE))
                /\ nextAttendeeId' = PostIncrement(nextAttendeeId)))
    /\ attendeesFile' = AttendeesLines(allAttendees')
    /\ op' = MkOp("updateContact", TRUE, 0, 0, 0, who.username)
    /\ UNCHANGED <<users, events, inventory, nextUserId, nextEventId, nextItemId,
                   usersFile, eventsFile, inventoryFile, pc, run, diag, saved, codec>>

\* usernameExists as it would run if it found no one
usernameExistsNever(us, uname) == FALSE

\* System::usernameExists: the names are compared exactly
usernameExists(us, uname) == \E u \in Range(us) : u.username = uname

\* System::createUserAccount, reached from the main menu without a login
\* (publicRegisterNewUser passes NONE for a choice other than 1 and 2)
createUserAccount(uname, pwd, role) ==
    /\ Running
    /\ IF usernameExists(users, uname) \/ Len(pwd) < 6
            \/ role \notin {ADMIN, REGULAR_USER}
       THEN /\ op' = MkOp("createUser", FALSE, 0, 0, 0, uname)
            /\ UNCHANGED <<users, nextUserId, usersFile>>
       ELSE /\ nextUserId <= MaxUserId
            /\ users' = Append(users, MkUser(nextUserId, uname, pwd, role))
            /\ nextUserId' = PostIncrement(nextUserId)
            /\ usersFile' = UsersLines(users')
            /\ op' = MkOp("createUser", TRUE, 0, 0, 0, uname)
    /\ UNCHANGED <<events, inventory, allAttendees, nextEventId, nextItemId,
                   nextAttendeeId, eventsFile, inventoryFile, attendeesFile,
                   pc, run, diag, saved, codec>>

\* System::deleteUserAccount, for the logged-in admin who: every user with
\* the name goes, the admin's own account is refused
deleteUserAccount(who, uname) ==
    /\ Running
    /\ who \in Range(users)
    /\ who.role = ADMIN
    /\ IF who.username = uname \/ ~usernameExists(users, uname)
       THEN /\ op' = MkOp("deleteUser", FALSE, 0, 0, 0, uname)
            /\ UNCHANGED <<users, usersFile>>
       ELSE /\ users' = SelectSeq(users, LAMBDA u : u.username # uname)
            /\ usersFile' = UsersLines(users')
            /\ op' = MkOp("deleteUser", TRUE, 0, 0, 0, uname)
    /\ UNCHANGED <<events, inventory, allAttendees, counters, eventsFile,
                   inventoryFile, attendeesFile, pc, run, diag, saved, codec>>

\* System::addInventoryItem
addInventoryItem(name, quantity, desc) ==
    /\ Running
    /\ AdminLoggedIn
    /\ nextItemId <= MaxItemId
    /\ inventory' = Append(inventory, MkItem(nextItemId, name, quantity, 0, desc))
    /\ nextItemId' = PostIncrement(nextItemId)
    /\ inventoryFile' = InventoryLines(inventory')
    /\ op' = MkOp("addInventoryItem", TRUE, 0, nextItemId, quantity, <<>>)
    /\ UNCHANGED <<users, events, allAttendees, nextUserId, nextEventId,
                   nextAttendeeId, usersFile, eventsFile, attendeesFile,
                   pc, run, diag, saved, codec>>

\* The process stops (power loss, kill) inside a granted allocate or
\* deallocate of trackInventoryAllocationToEvent, after saveInventory() and
\* before saveEvents(): the inventory file holds the new count, the events
\* file the old maps, and nothing else is saved.  saved remembers the
\* stores the process held.
StoppedBetweenSaves(eventId, itemId, quantity, allocating) ==
    /\ Running
    /\ AdminLoggedIn
    /\ Local(findEventById(events, eventId), LAMBDA e :
       Local(findInventoryItemById(inventory, itemId), LAMBDA i :
           /\ e # 0
           /\ i # 0
           /\ Local(IF allocating
                    THEN IF ItemAllocate(inventory[i], quantity).ok
                         THEN [inventory EXCEPT ![i] =
                                  ItemAllocate(@, quantity).item]
                         ELSE <<>>
                    ELSE Local(deallocateInventoryItem(events[e], itemId, quantity),
                               LAMBDA d :
                             IF itemId \in DOMAIN events[e].allocatedInventory
                                    /\ d.actual > 0
                             THEN [inventory EXCEPT ![i] =
                                      ItemDeallocate(@, d.actual).item]
                             ELSE <<>>), LAMBDA written :
                 /\ written # <<>>
                 /\ inventoryFile' = InventoryLines(written)
                 /\ saved' = [users |-> users,
                              events |-> [events EXCEPT ![e] =
                                  IF allocating
                                  THEN allocateInventoryItem(@, itemId, quantity)
                                  ELSE deallocateInventoryItem(@, itemId,
                                                               quantity).event],
                              inventory |-> written,
                              allAttendees |-> allAttendees])))
    /\ run' = run + 1
    /\ users' = <<>>
    /\ events' = <<>>
    /\ inventory' = <<>>
    /\ allAttendees' = <<>>
    /\ nextUserId' = 1
    /\ nextEventId' = 1
    /\ nextItemId' = 1
    /\ nextAttendeeId' = 1
    /\ pc' = "boot"
    /\ op' = MkOp(IF allocating THEN "stoppedInAllocate" ELSE "stoppedInDeallocate",
                  TRUE, eventId, itemId, quantity, <<>>)
    /\ UNCHANGED <<usersFile, eventsFile, attendeesFile, diag, codec>>

(***************************************************************************)
(* The program from a fresh installation: no file exists.                  *)
(***************************************************************************)
Init ==
    /\ users = <<>>
    /\ events = <<>>
    /\ inventory = <<>>
    /\ allAttendees = <<>>
    /\ nextUserId = 1
    /\ nextEventId = 1
    /\ nextItemId = 1
    /\ nextAttendeeId = 1
    /\ usersFile = <<>>
    /\ eventsFile = <<>>
    /\ inventoryFile = <<>>
    /\ attendeesFile = <<>>
    /\ pc = "boot"
    /\ run = 1
    /\ op = NoOp
    /\ diag = NoDiag
    /\ saved = NoSnapshot
    /\ codec = NoCodec

Next ==
    \/ LoadData
    \/ SeedInitialData
    \/ Exit
    \/ createEvent
    \/ \E eventId \in EventIdsInStore \cup {nextEventId} : deleteEvent(eventId)
    \/ \E itemId \in ItemIdsInStore, newTotal \in 1..MaxQty :
           updateInventoryItemDetails(itemId, newTotal)
    \/ \E eventId \in EventIdsInStore, itemId \in ItemIdsInStore,
          quantity \in 1..(MaxQty + 1) :
           AllocationInBounds(eventId, itemId, quantity)
               /\ trackAllocate(eventId, itemId, quantity)
    \/ \E eventId \in EventIdsInStore, itemId \in ItemIdsInStore,
          quantity \in 1..(MaxQty + 1) : trackDeallocate(eventId, itemId, quantity)
    \/ \E who \in RegularUsers, eventId \in EventIdsInStore :
           registerAttendeeForEvent(who, eventId, InContact)

Spec == Init /\ [][Next]_vars

(***************************************************************************)
(* The codec on its own: a record of one of the four kinds is drawn, then  *)
(* written by its toString, then read back by its fromString.             *)
(***************************************************************************)
\* ids are drawn from {1, MaxCodecId}, quantities from {0, 1, MaxCodecQty}
MaxCodecId == 12
MaxCodecQty == 100

CodecIds == {1, MaxCodecId}
CodecQtys == {0, 1, MaxCodecQty}
\* text without the reserved characters ',' and ';'
CodecTexts == {<<>>, <<"A", "l">>, <<"a", " ", "1">>}
CodecAttendeeIds == {<<>>, <<1>>, <<MaxCodecId>>, <<MaxCodecId, 1>>}
CodecAllocations ==
    {EmptyMap, MapPut(EmptyMap, 1, 1), MapPut(EmptyMap, MaxCodecId, MaxCodecQty),
     MapPut(MapPut(EmptyMap, 1, MaxCodecQty), MaxCodecId, 1)}

CodecUsers ==
    {MkUser(id, n, p, r) : id \in CodecIds, n \in CodecTexts, p \in CodecTexts,
                           r \in {ADMIN, REGULAR_USER}}
CodecAttendees ==
    {MkAttendee(id, n, c, e, b) : id \in CodecIds, n \in CodecTexts,
                                  c \in CodecTexts, e \in CodecIds, b \in BOOLEAN}
CodecItems ==
    {MkItem(id, n, t, a, d) : id \in CodecIds, n \in CodecTexts, t \in CodecQtys,
                              a \in CodecQtys, d \in CodecTexts}
CodecEvents ==
    {MkEvent(id, n, InDate, InTime, InLoc, d, InCat, st, atts, inv) :
         id \in CodecIds, n \in CodecTexts, d \in CodecTexts,
         st \in {UPCOMING, ONGOING, COMPLETED, CANCELED},
         atts \in CodecAttendeeIds, inv \in CodecAllocations}

NoRecord == <<>>
Drawn(kind, rec) ==
    [pc |-> "drawn", kind |-> kind, rec |-> rec, line |-> <<>>,
     ok |-> FALSE, out |-> NoRecord]

InitCodec ==
    /\ users = <<>>
    /\ events = <<>>
    /\ inventory = <<>>
    /\ allAttendees = <<>>
    /\ nextUserId = 1
    /\ nextEventId = 1
    /\ nextItemId = 1
    /\ nextAttendeeId = 1
    /\ usersFile = <<>>
    /\ eventsFile = <<>>
    /\ inventoryFile = <<>>
    /\ attendeesFile = <<>>
    /\ pc = "boot"
    /\ run = 1
    /\ op = NoOp
    /\ diag = NoDiag
    /\ saved = NoSnapshot
    /\ codec \in {Drawn("user", r) : r \in CodecUsers}
                 \cup {Drawn("attendee", r) : r \in CodecAttendees}
                 \cup {Drawn("item", r) : r \in CodecItems}
                 \cup {Drawn("event", r) : r \in CodecEvents}

\* toString of the record drawn
Encode ==
    /\ codec.pc = "drawn"
    /\ codec' = [codec EXCEPT
                   !.pc = "encoded",
                   !.line = CASE codec.kind = "user" -> UserToString(codec.rec)
                              [] codec.kind = "attendee" -> AttendeeToString(codec.rec)
                              [] codec.kind = "item" -> ItemToString(codec.rec)
                              [] codec.kind = "event" -> EventToString(codec.rec)]
    /\ UNCHANGED <<stores, counters, files, pc, run, op, diag, saved>>

\* fromString of the line written; ok = FALSE when no record comes back (the
\* nullptr of User::fromString, the process ending inside Event::fromString)
Decode ==
    /\ codec.pc = "encoded"
    /\ Local(CASE codec.kind = "user" ->
                     Local(UserFromString(codec.line), LAMBDA u :
                         [ok |-> u.ok, rec |-> u.rec])
                [] codec.kind = "attendee" ->
                     [ok |-> TRUE, rec |-> AttendeeFromString(codec.line).rec]
                [] codec.kind = "item" ->
                     [ok |-> TRUE, rec |-> ItemFromString(codec.line).rec]
                [] codec.kind = "event" ->
                     Local(EventFromString(codec.line), LAMBDA e :
                         [ok |-> ~e.crash, rec |-> e.rec]),
             LAMBDA r :
           codec' = [codec EXCEPT !.pc = "decoded", !.ok = r.ok, !.out = r.rec])
    /\ UNCHANGED <<stores, counters, files, pc, run, op, diag, saved>>

NextCodec ==
    \/ Encode
    \/ Decode

SpecCodec == InitCodec /\ [][NextCodec]_vars

(***************************************************************************)
(* The decoders on short lines: the line written is cut after its first k  *)
(* comma-separated segments before it is read back.                        *)
(***************************************************************************)
\* the fields that fromString reads before it builds the record: five
\* getline calls for an attendee and for an item, four for a user, eight
\* for an event (the two lists after them may be missing)
RequiredFields(kind) ==
    CASE kind = "attendee" -> 5
      [] kind = "item" -> 5
      [] kind = "user" -> 4
      [] kind = "event" -> 8

Truncate(k) ==
    /\ codec.pc = "encoded"
    /\ k < RequiredFields(codec.kind)
    /\ k < Len(Split(codec.line, ","))
    /\ codec' = [codec EXCEPT
                   !.line = Join(SubSeq(Split(codec.line, ","), 1, k), <<",">>)]
    /\ UNCHANGED <<stores, counters, files, pc, run, op, diag, saved>>

NextShort ==
    \/ Encode
    \/ \E k \in 1..7 : Truncate(k)
    \/ Decode

SpecShort == InitCodec /\ [][NextShort]_vars

(***************************************************************************)
(* loadData on files that were not written by saveData: every file is      *)
(* drawn from well-formed lines and lines damaged in one field.            *)
(***************************************************************************)
\* the line with its first field replaced by a word that is no number
WithBadId(line) == <<"x">> \o SubSeq(line, FindFrom(line, 1, ","), Len(line))

GoodUserLine1 == UserToString(MkUser(1, SeedAdminName, SeedAdminPass, ADMIN))
GoodUserLine2 == UserToString(MkUser(2, SeedUser1Name, SeedUser1Pass, REGULAR_USER))
GoodItemLine1 == ItemToString(MkItem(1, SeedItem1Name, SeedItem1Qty, 0, SeedItem1Desc))
GoodItemLine2 == ItemToString(MkItem(2, SeedItem2Name, SeedItem2Qty, 0, SeedItem2Desc))
GoodAttendeeLine1 == AttendeeToString(MkAttendee(1, SeedUser1Name, InContact, 1, FALSE))
GoodAttendeeLine2 == AttendeeToString(MkAttendee(2, SeedUser2Name, InContact, 1, TRUE))
GoodEventLine1 ==
    EventToString(MkEvent(1, SeedEvent1Name, SeedEvent1Date, SeedEvent1Time,
                          SeedEvent1Loc, SeedEvent1Desc, SeedEvent1Cat, UPCOMING,
                          <<>>, EmptyMap))
GoodEventLine2 ==
    EventToString(MkEvent(2, SeedEvent2Name, SeedEvent2Date, SeedEvent2Time,
                          SeedEvent2Loc, SeedEvent2Desc, SeedEvent2Cat, UPCOMING,
                          <<>>, EmptyMap))
\* "...,0,1;x,": the attendee list holds a segment that is no number
BadAttendeeListLine ==
    SubSeq(GoodEventLine1, 1, Len(GoodEventLine1) - 1) \o <<"1", ";", "x", ",">>
\* "...,0,,x:1": the allocation list holds a key that is no number
BadAllocationListLine == GoodEventLine1 \o <<"x", ":", "1">>

\* one well-formed line and one line whose id is no integer, in either order
BadIdFiles(good1, good2) == {<<good1, WithBadId(good2)>>, <<WithBadId(good1), good2>>}
\* a damaged line followed by a well-formed line
DamagedEventFiles ==
    {<<BadAttendeeListLine, GoodEventLine2>>, <<BadAllocationListLine, GoodEventLine2>>}

InitLoad ==
    /\ users = <<>>
    /\ events = <<>>
    /\ inventory = <<>>
    /\ allAttendees = <<>>
    /\ nextUserId = 1
    /\ nextEventId = 1
    /\ nextItemId = 1
    /\ nextAttendeeId = 1
    /\ usersFile \in {<<GoodUserLine1, GoodUserLine2>>}
                     \cup BadIdFiles(GoodUserLine1, GoodUserLine2)
    /\ eventsFile \in {<<>>, <<GoodEventLine1, GoodEventLine2>>}
                      \cup BadIdFiles(GoodEventLine1, GoodEventLine2)
                      \cup DamagedEventFiles
    /\ inventoryFile \in {<<>>, <<GoodItemLine1, GoodItemLine2>>}
                         \cup BadIdFiles(GoodItemLine1, GoodItemLine2)
    /\ attendeesFile \in {<<>>, <<GoodAttendeeLine1, GoodAttendeeLine2>>}
                         \cup BadIdFiles(GoodAttendeeLine1, GoodAttendeeLine2)
    /\ pc = "boot"
    /\ run = 1
    /\ op = NoOp
    /\ diag = NoDiag
    /\ saved = NoSnapshot
    /\ codec = NoCodec

NextLoad == LoadData

SpecLoad == InitLoad /\ [][NextLoad]_vars

(***************************************************************************)
(* The allocation engine on its own: the first process of a fresh          *)
(* installation after seedInitialData and one createEvent (events 1, 2 and *)
(* 3, Projector with 5 units, Chairs with 100), where the admin allocates  *)
(* and deallocates the quantities of ScenarioQtys.                         *)
(***************************************************************************)
ScenarioQtys == {10, 30, 50}

\* the stores that seedInitialData builds with the counters at 1
SeededUsers ==
    <<MkUser(1, SeedAdminName, SeedAdminPass, ADMIN),
      MkUser(2, SeedUser1Name, SeedUser1Pass, REGULAR_USER),
      MkUser(3, SeedUser2Name, SeedUser2Pass, REGULAR_USER)>>
SeededEvents ==
    <<MkEvent(1, SeedEvent1Name, SeedEvent1Date, SeedEvent1Time, SeedEvent1Loc,
              SeedEvent1Desc, SeedEvent1Cat, UPCOMING, <<>>, EmptyMap),
      MkEvent(2, SeedEvent2Name, SeedEvent2Date, SeedEvent2Time, SeedEvent2Loc,
              SeedEvent2Desc, SeedEvent2Cat, UPCOMING, <<>>, EmptyMap)>>
SeededInventory ==
    <<MkItem(1, SeedItem1Name, SeedItem1Qty, 0, SeedItem1Desc),
      MkItem(2, SeedItem2Name, SeedItem2Qty, 0, SeedItem2Desc)>>
\* the event that createEvent appends to the seeded ones
CreatedEvent ==
    MkEvent(3, InName, InDate, InTime, InLoc, InDesc, InCat, UPCOMING, <<>>, EmptyMap)

InitAlloc ==
    /\ users = SeededUsers
    /\ events = Append(SeededEvents, CreatedEvent)
    /\ inventory = SeededInventory
    /\ allAttendees = <<>>
    /\ nextUserId = 4
    /\ nextEventId = 4
    /\ nextItemId = 3
    /\ nextAttendeeId = 1
    /\ usersFile = UsersLines(users)
    /\ eventsFile = EventsLines(events)
    /\ inventoryFile = InventoryLines(inventory)
    /\ attendeesFile = <<>>
    /\ pc = "running"
    /\ run = 1
    /\ op = MkOp("createEvent", TRUE, 3, 0, 0, <<>>)
    /\ diag = NoDiag
    /\ saved = NoSnapshot
    /\ codec = NoCodec

NextAlloc ==
    \/ \E eventId \in EventIdsInStore, itemId \in ItemIdsInStore,
          quantity \in ScenarioQtys : trackAllocate(eventId, itemId, quantity)
    \/ \E eventId \in EventIdsInStore, itemId \in ItemIdsInStore,
          quantity \in ScenarioQtys : trackDeallocate(eventId, itemId, quantity)

SpecAlloc == InitAlloc /\ [][NextAlloc]_vars

(***************************************************************************)
(* The same store with the total of Chairs edited between the allocations  *)
(* of 10 and 30 units to the two seeded events.                            *)
(***************************************************************************)
\* the totals entered at the "new total quantity" prompt
ScenarioTotals == {20, 60, 100}

NextItems ==
    \/ \E eventId \in {1, 2}, itemId \in ItemIdsInStore, quantity \in {10, 30} :
           trackAllocate(eventId, itemId, quantity)
    \/ \E eventId \in {1, 2}, itemId \in ItemIdsInStore, quantity \in {10, 30} :
           trackDeallocate(eventId, itemId, quantity)
    \/ \E itemId \in {SeededInventory[2].itemId, nextItemId},
          newTotal \in ScenarioTotals :
           updateInventoryItemDetails(itemId, newTotal)

SpecItems == InitAlloc /\ [][NextItems]_vars

(***************************************************************************)
(* The same store where the admin moves the events between the four        *)
(* statuses while user1 registers for event 1 and Chairs are allocated to  *)
(* it.                                                                     *)
(***************************************************************************)
AllStatuses == {UPCOMING, ONGOING, COMPLETED, CANCELED}

NextStatus ==
    \/ \E eventId \in EventIdsInStore \cup {nextEventId}, status \in AllStatuses :
           updateEventStatus(eventId, status)
    \/ \E who \in {u \in RegularUsers : u.username = SeedUser1Name} :
           registerAttendeeForEvent(who, 1, InContact)
    \/ trackAllocate(1, SeededInventory[2].itemId, 50)

SpecStatus == InitAlloc /\ [][NextStatus]_vars

(***************************************************************************)
(* Deleting events that have registrations and allocations: three events,  *)
(* the regular users register, Chairs are allocated, and the admin deletes *)
(* by any id issued so far or the next one.                                *)
(***************************************************************************)
NextDelete ==
    \/ \E eventId \in 1..nextEventId : deleteEvent(eventId)
    \/ \E who \in RegularUsers, eventId \in EventIdsInStore :
           registerAttendeeForEvent(who, eventId, InContact)
    \/ \E eventId \in EventIdsInStore :
           trackAllocate(eventId, SeededInventory[2].itemId, 50)

SpecDelete == InitAlloc /\ [][NextDelete]_vars

(***************************************************************************)
(* A fresh installation where the admin allocates and deallocates and the  *)
(* process may stop between the two saves of either; the next process      *)
(* loads what the files hold.                                              *)
(***************************************************************************)
NextStop ==
    \/ LoadData
    \/ SeedInitialData
    \/ Exit
    \/ \E eventId \in EventIdsInStore, itemId \in ItemIdsInStore,
          quantity \in 1..(MaxQty + 1) :
           AllocationInBounds(eventId, itemId, quantity)
               /\ trackAllocate(eventId, itemId, quantity)
    \/ \E eventId \in EventIdsInStore, itemId \in ItemIdsInStore,
          quantity \in 1..(MaxQty + 1) : trackDeallocate(eventId, itemId, quantity)
    \/ \E eventId \in EventIdsInStore, itemId \in ItemIdsInStore,
          quantity \in 1..(MaxQty + 1), allocating \in BOOLEAN :
           (allocating => AllocationInBounds(eventId, itemId, quantity))
               /\ StoppedBetweenSaves(eventId, itemId, quantity, allocating)

SpecStop == Init /\ [][NextStop]_vars

(***************************************************************************)
(* Every handler that changes a store: the admin works on event 1 and on   *)
(* Projector, user1 registers, cancels and edits the contact.  The process *)
(* starts on the files that the first process of a fresh installation      *)
(* saved after seedInitialData, or on those files with the line of event 1 *)
(* edited by hand to hold attendee 1 and the allocation 1:0.               *)
(***************************************************************************)
ZeroAllocationLine ==
    EventToString([SeededEvents[1] EXCEPT !.attendeeIds = <<1>>,
                                          !.allocatedInventory = MapPut(EmptyMap, 1, 0)])

\* the choices of editEventDetails with the text entered for each
EditChoices == {<<"name", InName>>, <<"date", InDate>>}

InitPersist ==
    /\ users = <<>>
    /\ events = <<>>
    /\ inventory = <<>>
    /\ allAttendees = <<>>
    /\ nextUserId = 1
    /\ nextEventId = 1
    /\ nextItemId = 1
    /\ nextAttendeeId = 1
    /\ usersFile = UsersLines(SeededUsers)
    /\ eventsFile \in {EventsLines(SeededEvents),
                        [EventsLines(SeededEvents) EXCEPT ![1] = ZeroAllocationLine]}
    /\ inventoryFile = InventoryLines(SeededInventory)
    /\ attendeesFile = <<>>
    /\ pc = "boot"
    /\ run = 1
    /\ op = NoOp
    /\ diag = NoDiag
    /\ saved = NoSnapshot
    /\ codec = NoCodec

NextPersist ==
    \/ LoadData
    \/ SeedInitialData
    \/ createEvent
    \/ \E c \in EditChoices : editEventDetails(1, c[1], c[2])
    \/ deleteEvent(1)
    \/ updateEventStatus(1, ONGOING)
    \/ \E who \in {u \in RegularUsers : u.username = SeedUser1Name} :
           \/ registerAttendeeForEvent(who, 1, InContact)
           \/ cancelOwnRegistration(who, 1)
           \/ updateCurrentLoggedInUserContactInfo(who, InTime)
    \/ checkInAttendeeForEvent(1, 1)
    \/ trackAllocate(1, 1, 1)
    \/ trackDeallocate(1, 1, 1)
    \/ addInventoryItem(InName, 1, InDesc)
    \/ updateInventoryItemDetails(1, 1)
    \/ createUserAccount(InName, SeedAdminPass, REGULAR_USER)
    \/ deleteUserAccount(users[1], InName)

SpecPersist == InitPersist /\ [][NextPersist]_vars

(***************************************************************************)
(* The registration engine: the regular users register, cancel and edit    *)
(* their contact, the admin checks attendees in, changes the status of     *)
(* events and deletes them; the process exits and starts again.  The       *)
(* program starts on a fresh installation or on the files that an earlier  *)
(* process left, in which user1 registered for event 1 and was checked in. *)
(***************************************************************************)
\* the stores of the earlier process when it saved and ended
EarlierEvents == [SeededEvents EXCEPT ![1] = addAttendee(@, 1)]
EarlierAttendees == <<MkAttendee(1, SeedUser1Name, InContact, 1, TRUE)>>

InitReg ==
    /\ users = <<>>
    /\ events = <<>>
    /\ inventory = <<>>
    /\ allAttendees = <<>>
    /\ nextUserId = 1
    /\ nextEventId = 1
    /\ nextItemId = 1
    /\ nextAttendeeId = 1
    /\ \/ /\ usersFile = <<>>
          /\ eventsFile = <<>>
          /\ inventoryFile = <<>>
          /\ attendeesFile = <<>>
       \/ /\ usersFile = UsersLines(SeededUsers)
          /\ eventsFile = EventsLines(EarlierEvents)
          /\ inventoryFile = InventoryLines(SeededInventory)
          /\ attendeesFile = AttendeesLines(EarlierAttendees)
    /\ pc = "boot"
    /\ run = 1
    /\ op = NoOp
    /\ diag = NoDiag
    /\ saved = NoSnapshot
    /\ codec = NoCodec

\* the statuses the admin moves events to
RegStatuses == {UPCOMING, COMPLETED, CANCELED}

NextReg ==
    \/ LoadData
    \/ SeedInitialData
    \/ Exit
    \/ \E who \in RegularUsers, eventId \in EventIdsInStore \cup {nextEventId} :
           registerAttendeeForEvent(who, eventId, InContact)
    \/ \E who \in RegularUsers, eventId \in EventIdsInStore \cup {nextEventId} :
           cancelOwnRegistration(who, eventId)
    \/ \E eventId \in EventIdsInStore \cup {nextEventId},
          attendeeId \in 1..nextAttendeeId : checkInAttendeeForEvent(eventId, attendeeId)
    \/ \E eventId \in EventIdsInStore, status \in RegStatuses :
           updateEventStatus(eventId, status)
    \/ \E who \in RegularUsers : updateCurrentLoggedInUserContactInfo(who, InContact)
    \/ \E eventId \in EventIdsInStore : deleteEvent(eventId)

SpecReg == InitReg /\ [][NextReg]_vars

(***************************************************************************)
(* The identifier allocators and the user store: accounts are created and  *)
(* deleted, events, items and attendees are created; the process exits and *)
(* starts again.  The program starts on a fresh installation or on the     *)
(* files of an earlier process in which the admin deleted user1 and        *)
(* event 1 and user2 registered for event 2, so that ids are missing.      *)
(***************************************************************************)
GappedUsers == SelectSeq(SeededUsers, LAMBDA u : u.username # SeedUser1Name)
GappedEvents == <<addAttendee(SeededEvents[2], 1)>>
GappedAttendees == <<MkAttendee(1, SeedUser2Name, InContact, 2, FALSE)>>

\* the names and passwords entered at the account prompts: a name that
\* differs from the seeded user1 in letter case only, a password under six
\* characters
InUserNames == {SeedUser1Name, <<"U", "s", "e", "r", "1">>}
InPasswords == {<<"a", "b", "c">>, <<"s", "e", "c", "r", "e", "t">>}

InitIds ==
    /\ users = <<>>
    /\ events = <<>>
    /\ inventory = <<>>
    /\ allAttendees = <<>>
    /\ nextUserId = 1
    /\ nextEventId = 1
    /\ nextItemId = 1
    /\ nextAttendeeId = 1
    /\ \/ /\ usersFile = <<>>
          /\ eventsFile = <<>>
          /\ inventoryFile = <<>>
          /\ attendeesFile = <<>>
       \/ /\ usersFile = UsersLines(GappedUsers)
          /\ eventsFile = EventsLines(GappedEvents)
          /\ inventoryFile = InventoryLines(SeededInventory)
          /\ attendeesFile = AttendeesLines(GappedAttendees)
    /\ pc = "boot"
    /\ run = 1
    /\ op = NoOp
    /\ diag = NoDiag
    /\ saved = NoSnapshot
    /\ codec = NoCodec

NextIds ==
    \/ LoadData
    \/ SeedInitialData
    \/ Exit
    \/ \E uname \in InUserNames, pwd \in InPasswords,
          role \in {ADMIN, REGULAR_USER, NONE} : createUserAccount(uname, pwd, role)
    \/ \E who \in Range(users), uname \in InUserNames \cup {SeedUser2Name} :
           deleteUserAccount(who, uname)
    \/ createEvent
    \/ addInventoryItem(InName, 1, InDesc)
    \/ \E who \in {u \in RegularUsers : u.username = SeedUser2Name},
          eventId \in EventIdsInStore :
           registerAttendeeForEvent(who, eventId, InContact)

SpecIds == InitIds /\ [][NextIds]_vars

(***************************************************************************)
(* Two accounts whose names differ in letter case only: next to the seeded *)
(* user1 the account User1 is created, and both register for and cancel    *)
(* events 1 and 2.                                                         *)
(***************************************************************************)
CaseTwins == {u \in RegularUsers : u.username \in InUserNames}

NextTwins ==
    \/ \E uname \in InUserNames, pwd \in InPasswords :
           createUserAccount(uname, pwd, REGULAR_USER)
    \/ \E who \in CaseTwins, eventId \in {1, 2} :
           registerAttendeeForEvent(who, eventId, who.username)
    \/ \E who \in CaseTwins, eventId \in {1, 2} :
           cancelOwnRegistration(who, eventId)

SpecTwins == InitAlloc /\ [][NextTwins]_vars

(***************************************************************************)
(* Properties.                                                             *)
(***************************************************************************)
Crashed == pc \in {"terminated", "segfault"}

\* every item's allocatedQuantity is the sum of the events' entries for it
SumsConsistent(inv, es) ==
    \A i \in 1..Len(inv) : inv[i].allocatedQuantity = SumAllocated(es, inv[i].itemId)

\* C1: between operations (after loadData and after every handler) every
\* inventory item has 0 <= allocatedQuantity <= totalQuantity.
C1_AllocatedWithinTotal ==
    pc \in {"loaded", "running"} =>
        \A i \in 1..Len(inventory) :
            /\ 0 <= inventory[i].allocatedQuantity
            /\ inventory[i].allocatedQuantity <= inventory[i].totalQuantity

\* C2: when loadData has returned, every item's allocatedQuantity equals the
\* sum over the loaded events of the event's entry for the item's id.
C2_ReconciledAfterLoad == pc = "loaded" => SumsConsistent(inventory, events)

\* C2, its case: loadData has returned with an item in use whose count in the
\* inventory file differs from the count rebuilt from the events.
C2_Witness ==
    /\ pc = "loaded"
    /\ \E i \in 1..Len(inventory) :
           /\ inventory[i].allocatedQuantity > 0
           /\ ItemFromString(inventoryFile[i]).rec.allocatedQuantity
                  # inventory[i].allocatedQuantity

\* C3: a createEvent, allocate, deallocate, setTotalQuantity or deleteEvent
\* that starts where every item's allocatedQuantity is the sum of the events'
\* entries ends where it still is.
C3_SumsPreserved ==
    [][(/\ pc = "running"
        /\ SumsConsistent(inventory, events)
        /\ op'.name \in {"createEvent", "allocate", "deallocate",
                         "setTotalQuantity", "deleteEvent"})
       => SumsConsistent(inventory', events')]_vars

\* C4: an Event written by toString and read back by fromString is the Event
\* that was written, whether its attendee list and its allocation map are
\* empty or not.
C4_EventRoundTrip ==
    codec.pc = "decoded" /\ codec.kind = "event" =>
        codec.ok /\ codec.out = codec.rec

\* C5: a User, an Attendee or an InventoryItem written by toString and read
\* back by fromString has the same id and the same value in every field.
C5_RecordRoundTrip ==
    codec.pc = "decoded" /\ codec.kind \in {"user", "attendee", "item"} =>
        codec.ok /\ codec.out = codec.rec

\* C5, its case: an item with text in both text fields and both quantities
\* above 0 has been written and read back.
C5_Witness ==
    /\ codec.pc = "decoded"
    /\ codec.kind = "item"
    /\ codec.rec.name # <<>>
    /\ codec.rec.description # <<>>
    /\ codec.rec.totalQuantity > codec.rec.allocatedQuantity
    /\ codec.rec.allocatedQuantity > 0
    /\ codec.out = codec.rec

\* C6: the stores that loadData builds in a fresh process are the stores the
\* last process held when it saved and ended, when the sums were consistent.
C6_RestartRoundTrip ==
    (/\ pc = "loaded"
     /\ saved # NoSnapshot
     /\ SumsConsistent(saved.inventory, saved.events))
    => /\ users = saved.users
       /\ events = saved.events
       /\ inventory = saved.inventory
       /\ allAttendees = saved.allAttendees

\* C7: deleteEvent of an event of the store, wherever it stands, removes
\* every attendee registered for it and lowers every item's allocatedQuantity
\* by the quantity the event held of it.
C7_DeleteEventCascade ==
    [][(pc = "running" /\ op'.name = "deleteEvent" /\ op'.ok) =>
         LET deleted == events[findEventById(events, op'.ev)]
         IN  /\ \A a \in Range(allAttendees') : a.eventIdRegisteredFor # op'.ev
             /\ Len(inventory') = Len(inventory)
             /\ \A i \in 1..Len(inventory) :
                    inventory'[i].allocatedQuantity =
                        inventory[i].allocatedQuantity
                            - MapGet(deleted.allocatedInventory, inventory[i].itemId)]_vars

\* C8: a table whose file holds one well-formed line and one line whose id
\* is no integer is loaded as exactly one record with exactly one warning,
\* and the process does not end abnormally.
C8_BadIdLineSkipped ==
    pc # "boot" =>
        /\ ~Crashed
        /\ usersFile \in BadIdFiles(GoodUserLine1, GoodUserLine2)
               => Len(users) = 1 /\ diag.users = 1
        /\ eventsFile \in BadIdFiles(GoodEventLine1, GoodEventLine2)
               => Len(events) = 1 /\ diag.events = 1
        /\ inventoryFile \in BadIdFiles(GoodItemLine1, GoodItemLine2)
               => Len(inventory) = 1 /\ diag.inventory = 1
        /\ attendeesFile \in BadIdFiles(GoodAttendeeLine1, GoodAttendeeLine2)
               => Len(allAttendees) = 1 /\ diag.attendees = 1

\* C9: whatever the files hold, loadData returns, and a well-formed line
\* that follows a damaged line of its file is loaded.
C9_MalformedNeverFatal ==
    pc # "boot" =>
        /\ pc = "loaded"
        /\ usersFile[2] = GoodUserLine2 => \E u \in Range(users) : u.userId = 2
        /\ Len(eventsFile) = 2 /\ eventsFile[2] = GoodEventLine2
               => \E e \in Range(events) : e.eventId = 2
        /\ Len(inventoryFile) = 2 /\ inventoryFile[2] = GoodItemLine2
               => \E i \in Range(inventory) : i.itemId = 2
        /\ Len(attendeesFile) = 2 /\ attendeesFile[2] = GoodAttendeeLine2
               => \E a \in Range(allAttendees) : a.attendeeId = 2

\* C10: an allocate of more than the item's available quantity fails and
\* changes neither the item's allocatedQuantity nor any event's allocation map.
C10_AllocateBeyondAvailable ==
    [][(/\ pc = "running"
        /\ op'.name = "allocate"
        /\ op'.item \in ItemIdsInStore
        /\ op'.qty > getAvailableQuantity(
                         inventory[findInventoryItemById(inventory, op'.item)]))
       => /\ ~op'.ok
          /\ inventory' = inventory
          /\ events' = events]_vars

\* C10, its case: the last handler was an allocate that was turned away for a
\* quantity above what the item has available, the item being partly in use.
C10_Witness ==
    /\ pc = "running"
    /\ op.name = "allocate"
    /\ ~op.ok
    /\ op.item \in ItemIdsInStore
    /\ LET it == inventory[findInventoryItemById(inventory, op.item)]
       IN  /\ op.qty > getAvailableQuantity(it)
           /\ it.allocatedQuantity > 0
           /\ SumAllocated(events, op.item) = it.allocatedQuantity

\* the entry of the event with id eventId for itemId, 0 when it has none
EntryOf(es, eventId, itemId) ==
    MapGet(es[findEventById(es, eventId)].allocatedInventory, itemId)

\* C11: allocating qty of an existing item to an existing event succeeds
\* exactly when qty > 0 and qty <= the item's available quantity; when it
\* succeeds the item's allocatedQuantity grows by exactly qty, the event's
\* entry for the item grows by exactly qty (it is created at qty when the
\* event had none), and no other item, event, user or attendee changes.
C11_AllocateContract ==
    [][op'.name = "allocate" /\ op'.item # 0 =>
          Local(findInventoryItemById(inventory, op'.item), LAMBDA i :
              /\ i # 0
              /\ op'.ok <=> (op'.qty > 0
                                 /\ op'.qty <= inventory[i].totalQuantity
                                                   - inventory[i].allocatedQuantity)
              /\ op'.ok =>
                     Local(findEventById(events, op'.ev), LAMBDA e :
                         /\ e # 0
                         /\ inventory' =
                                [inventory EXCEPT ![i].allocatedQuantity = @ + op'.qty]
                         /\ events' =
                                [events EXCEPT ![e].allocatedInventory =
                                    MapPut(@, op'.item, MapGet(@, op'.item) + op'.qty)]
                         /\ UNCHANGED <<users, allAttendees>>))]_vars

\* C11, its case: an allocation was granted to an event that already held
\* some of the item, while another event holds some of it too.
C11_Witness ==
    /\ op.name = "allocate"
    /\ op.ok
    /\ EntryOf(events, op.ev, op.item) > op.qty
    /\ \E e \in Range(events) :
           e.eventId # op.ev /\ MapGet(e.allocatedInventory, op.item) > 0

\* C12: deallocating qty > 0 of an item from an event that has r units of it
\* takes exactly min(qty, r) off the event's entry, deletes the entry when it
\* reaches 0 and takes the same min(qty, r) off the item's allocatedQuantity.
C12_DeallocateClamps ==
    [][op'.name = "deallocate" /\ op'.ev # 0 =>
          Local(findInventoryItemById(inventory, op'.item), LAMBDA i :
          Local(findEventById(events, op'.ev), LAMBDA e :
          Local(EntryOf(events, op'.ev, op'.item), LAMBDA r :
          Local(IF op'.qty < r THEN op'.qty ELSE r, LAMBDA m :
              /\ i # 0 /\ e # 0 /\ r > 0 /\ op'.qty > 0
              /\ op'.actual = m
              /\ events' =
                     [events EXCEPT ![e].allocatedInventory =
                         IF r - m = 0 THEN MapErase(@, op'.item)
                         ELSE MapPut(@, op'.item, r - m)]
              /\ inventory' = [inventory EXCEPT ![i].allocatedQuantity = @ - m]))))]_vars

\* C12, its case: more was requested than the event held, the entry is gone
\* and the amount taken off is what the event held.
C12_Witness ==
    /\ op.name = "deallocate"
    /\ op.ok
    /\ op.qty > op.actual
    /\ op.actual > 0
    /\ op.item \notin DOMAIN events[findEventById(events, op.ev)].allocatedInventory

\* the Chairs of the seeded inventory and what events 1, 2 and 3 hold of them
Chairs(inv) == inv[findInventoryItemById(inv, 2)]
ChairsAt(es, inv, e1, e2, e3) ==
    /\ Chairs(inv).name = SeedItem2Name
    /\ Chairs(inv).totalQuantity = 100
    /\ Chairs(inv).allocatedQuantity = e1 + e2 + e3
    /\ EntryOf(es, 1, 2) = e1
    /\ EntryOf(es, 2, 2) = e2
    /\ EntryOf(es, 3, 2) = e3

\* C13: the scenario, step by step.  With Chairs at total 100 and nothing
\* allocated, allocating 30 to E1 succeeds; then allocating 50 to E2
\* succeeds; then allocating 30 (to E3 as to any event) is rejected and no
\* store changes; deallocating 10 from E1 leaves E1 at 20, allocatedQuantity
\* at 70 and 30 available; then allocating 30 to E3 succeeds.
C13_ChairsScenario ==
    [][/\ ChairsAt(events, inventory, 0, 0, 0)
             /\ op'.name = "allocate" /\ op'.item = 2 /\ op'.qty = 30
          => op'.ok /\ (op'.ev = 1 => ChairsAt(events', inventory', 30, 0, 0))
       /\ ChairsAt(events, inventory, 30, 0, 0)
             /\ op'.name = "allocate" /\ op'.item = 2 /\ op'.qty = 50
          => op'.ok /\ (op'.ev = 2 => ChairsAt(events', inventory', 30, 50, 0))
       /\ ChairsAt(events, inventory, 30, 50, 0)
             /\ op'.name = "allocate" /\ op'.item = 2 /\ op'.qty = 30
          => ~op'.ok /\ UNCHANGED <<stores, files>>
       /\ ChairsAt(events, inventory, 30, 50, 0)
             /\ op'.name = "deallocate" /\ op'.item = 2 /\ op'.qty = 10
             /\ op'.ev = 1
          => /\ ChairsAt(events', inventory', 20, 50, 0)
             /\ Chairs(inventory').allocatedQuantity = 70
             /\ getAvailableQuantity(Chairs(inventory')) = 30
       /\ ChairsAt(events, inventory, 20, 50, 0)
             /\ op'.name = "allocate" /\ op'.item = 2 /\ op'.qty = 30
          => op'.ok /\ (op'.ev = 3 => ChairsAt(events', inventory', 20, 50, 30))]_vars

\* C13, its case: the scenario has run to its end, the last allocation of 30
\* to E3 was granted and all 100 Chairs are allocated.
C13_Witness ==
    /\ ChairsAt(events, inventory, 20, 50, 30)
    /\ op = MkOp("allocate", TRUE, 3, 2, 30, <<>>)
    /\ getAvailableQuantity(Chairs(inventory)) = 0

\* the attendees of atts with the id
WithId(atts, id) == {a \in Range(atts) : a.attendeeId = id}

\* C14: an attendee record that is checked in stays checked in under every
\* operation for as long as it exists, a restart included (the record that
\* the next process loads under the same id is checked in); checking in an
\* attendee who is checked in already is accepted, reported as already done
\* and changes no record.
C14_CheckInOneWay ==
    [][/\ \A a \in Range(allAttendees), b \in Range(allAttendees') :
              a.attendeeId = b.attendeeId /\ a.isCheckedIn => b.isCheckedIn
       /\ pc = "boot" /\ pc' = "loaded" /\ saved # NoSnapshot =>
              \A a \in Range(saved.allAttendees) :
                  a.isCheckedIn =>
                      /\ WithId(allAttendees', a.attendeeId) # {}
                      /\ \A b \in WithId(allAttendees', a.attendeeId) : b.isCheckedIn
       /\ op'.name = "checkIn" /\ op'.att # 0 =>
              \A a \in WithId(allAttendees, op'.att) :
                  a.eventIdRegisteredFor = op'.ev /\ a.isCheckedIn =>
                      op'.ok /\ op'.already /\ allAttendees' = allAttendees]_vars

\* C14, its case: the admin has checked in an attendee who was checked in
\* already; the record is checked in and the file holds it so.
C14_Witness ==
    /\ op.name = "checkIn"
    /\ op.ok
    /\ op.already
    /\ \E a \in WithId(allAttendees, op.att) : a.isCheckedIn
    /\ attendeesFile = AttendeesLines(allAttendees)

\* C15: checkIn sets isCheckedIn of the attendee with the id entered, and
\* only when that attendee exists and is registered for the event entered;
\* with an unknown event, an unknown attendee or an attendee tied to another
\* event or to no event, no attendee record changes.  No other operation
\* sets the flag of a record.
C15_CheckInGuard ==
    [][/\ op'.name = "checkIn" =>
              Local(findAttendeeInMasterList(allAttendees, op'.att), LAMBDA a :
                  IF /\ findEventById(events, op'.ev) # 0
                     /\ a # 0
                     /\ allAttendees[a].eventIdRegisteredFor = op'.ev
                  THEN /\ op'.ok
                       /\ allAttendees' = [allAttendees EXCEPT ![a].isCheckedIn = TRUE]
                  ELSE ~op'.ok /\ allAttendees' = allAttendees)
       /\ \A a \in Range(allAttendees), b \in Range(allAttendees') :
              a.attendeeId = b.attendeeId /\ ~a.isCheckedIn /\ b.isCheckedIn =>
                  op'.name = "checkIn" /\ op'.ok /\ op'.att = a.attendeeId]_vars

\* C15, its case: the admin entered the id of a generic profile (tied to no
\* event) that an event lists, and the check-in was turned away.
C15_Witness ==
    /\ op.name = "checkIn"
    /\ ~op.ok
    /\ \E a \in WithId(allAttendees, op.att) :
           /\ a.eventIdRegisteredFor = 0
           /\ ~a.isCheckedIn
           /\ \E e \in Range(events) :
                  e.eventId = op.ev /\ op.att \in Range(e.attendeeIds)

\* C16: a register request for an event whose status is CANCELED or
\* COMPLETED is rejected; the Attendee store and every event (its
\* attendeeIds included) are as they were, and so are the files.
C16_RegisterClosedEvent ==
    [][op'.name = "register" /\ op'.ev # 0 =>
          Local(findEventById(events, op'.ev), LAMBDA e :
              e # 0 /\ events[e].status \in {CANCELED, COMPLETED} =>
                  /\ ~op'.ok
                  /\ UNCHANGED <<allAttendees, events, nextAttendeeId,
                                 eventsFile, attendeesFile>>)]_vars

\* C16, its case: a user who holds no registration asked to register for a
\* COMPLETED event that lists another attendee, and was turned away.
C16_Witness ==
    /\ op.name = "register"
    /\ ~op.ok
    /\ op.ev # 0
    /\ \E e \in Range(events) :
           /\ e.eventId = op.ev
           /\ e.status = COMPLETED
           /\ e.attendeeIds # <<>>
    /\ \A a \in Range(allAttendees) : toLower(a.name) # toLower(op.who)

\* C17: when the user who registers already has an Attendee with their name
\* (letter case aside) for the event, the registration creates no record and
\* leaves the event's attendeeIds as it was; after every registration no
\* event lists an id twice and no two Attendee records share the lower-cased
\* name and a non-zero event id.
C17_RegistrationIdempotent ==
    [][op'.name = "register" /\ op'.ok =>
          Local(findEventById(events, op'.ev), LAMBDA e :
              /\ FindAttendeeByNameAndEvent(allAttendees, op'.who, op'.ev) # 0 =>
                     /\ allAttendees' = allAttendees
                     /\ events'[e].attendeeIds = events[e].attendeeIds
              /\ \A x \in Range(events') :
                     \A i, j \in 1..Len(x.attendeeIds) :
                         x.attendeeIds[i] = x.attendeeIds[j] => i = j
              /\ \A i, j \in 1..Len(allAttendees') :
                     /\ toLower(allAttendees'[i].name) = toLower(allAttendees'[j].name)
                     /\ allAttendees'[i].eventIdRegisteredFor
                            = allAttendees'[j].eventIdRegisteredFor
                     /\ allAttendees'[i].eventIdRegisteredFor # 0
                     => i = j)]_vars

\* C18: cancel removes the id of the user's attendee for the event from the
\* event's attendeeIds and the record from the Attendee store, and changes
\* nothing else; when the user has no attendee for the event, the Attendee
\* store and all events stay as they were and the user is told so.
C18_CancelContract ==
    [][op'.name = "cancel" =>
          Local(findEventById(events, op'.ev), LAMBDA e :
          Local(FindAttendeeByNameAndEvent(allAttendees, op'.who, op'.ev),
                LAMBDA found :
              IF e # 0 /\ found # 0
              THEN Local(allAttendees[found].attendeeId, LAMBDA id :
                       /\ op'.ok
                       /\ id \notin Range(events'[e].attendeeIds)
                       /\ WithId(allAttendees', id) = {}
                       /\ allAttendees' =
                              SelectSeq(allAttendees, LAMBDA a : a.attendeeId # id)
                       /\ events' =
                              [events EXCEPT ![e].attendeeIds =
                                  SelectSeq(@, LAMBDA x : x # id)])
              ELSE ~op'.ok /\ UNCHANGED <<allAttendees, events>>))]_vars

\* C18, its case: one of two users registered for the same event has
\* cancelled; the other one's id is what the event still lists.
C18_Witness ==
    /\ op.name = "cancel"
    /\ op.ok
    /\ Len(allAttendees) = 1
    /\ \E e \in Range(events) :
           /\ e.eventId = op.ev
           /\ e.attendeeIds = <<allAttendees[1].attendeeId>>
           /\ allAttendees[1].eventIdRegisteredFor = op.ev
           /\ toLower(allAttendees[1].name) # toLower(op.who)

\* the records a step appended to a store carry ids that are at least the
\* counter's value before the step and above the id of every record before
\* them in the store
IssuedAbove(old, new, field, next) ==
    \A i \in (Len(old) + 1)..Len(new) :
        /\ new[i][field] >= next
        /\ \A j \in 1..(i - 1) : new[j][field] < new[i][field]

\* every id of the store is below the counter
BelowCounter(store, field, next) ==
    \A i \in 1..Len(store) : store[i][field] < next

\* C19: within a process no id counter ever decreases; every record created
\* after startup (by the seeding or by a handler) takes an id that is at
\* least the counter's value, hence above every id loaded at startup and
\* every id issued or observed earlier in the process, and above the id of
\* every record in its store; after each step every id in a store is below
\* its counter.
C19_IdsMonotone ==
    [][/\ pc' # "boot" =>
              /\ nextUserId' >= nextUserId
              /\ nextEventId' >= nextEventId
              /\ nextItemId' >= nextItemId
              /\ nextAttendeeId' >= nextAttendeeId
       /\ pc \in {"loaded", "running"} /\ pc' = "running" =>
              /\ IssuedAbove(users, users', "userId", nextUserId)
              /\ IssuedAbove(events, events', "eventId", nextEventId)
              /\ IssuedAbove(inventory, inventory', "itemId", nextItemId)
              /\ IssuedAbove(allAttendees, allAttendees', "attendeeId",
                             nextAttendeeId)
       /\ pc' \in {"loaded", "running"} =>
              /\ BelowCounter(users', "userId", nextUserId')
              /\ BelowCounter(events', "eventId", nextEventId')
              /\ BelowCounter(inventory', "itemId", nextItemId')
              /\ BelowCounter(allAttendees', "attendeeId", nextAttendeeId')]_vars

\* C19, its case: the files of the earlier process were loaded with user 2
\* and event 1 missing; the account, the event, the item and the attendee
\* created since took the ids after the largest loaded one of their type.
C19_Witness ==
    /\ pc = "running"
    /\ Ids(users, "userId") = <<1, 3, 4>>
    /\ Ids(events, "eventId") = <<2, 3>>
    /\ Ids(inventory, "itemId") = <<1, 2, 3>>
    /\ Ids(allAttendees, "attendeeId") = <<1, 2>>
    /\ counters = <<5, 4, 4, 3>>

\* C20: createUserAccount with a username that a user of the store has
\* leaves the store (and its file) unchanged and is refused; when the
\* usernames of the store are pairwise different before a createUserAccount
\* or a deleteUserAccount, they are pairwise different after it.
C20_UsernamesDistinct ==
    [][pc = "running" /\ op'.name \in {"createUser", "deleteUser"} =>
          /\ (/\ op'.name = "createUser"
              /\ \E u \in Range(users) : u.username = op'.who)
                 => ~op'.ok /\ UNCHANGED <<users, usersFile, nextUserId>>
          /\ (\A i, j \in 1..Len(users) :
                  users[i].username = users[j].username => i = j)
                 => \A i, j \in 1..Len(users') :
                        users'[i].username = users'[j].username => i = j]_vars

\* C20, its case: an account was created under a name that differs from
\* user1 in letter case only, and a second account under that name, with a
\* valid password and role or not, was refused.
C20_Witness ==
    /\ op.name = "createUser"
    /\ ~op.ok
    /\ op.who # SeedUser1Name
    /\ \E u \in Range(users) : u.username = op.who
    /\ \E u \in Range(users) : u.username = SeedUser1Name
    /\ nextUserId <= MaxUserId

\* C21: setTotalQuantity with a new total below the item's allocated
\* quantity leaves the item (total and allocated quantity) as it was; with a
\* new total at or above the allocated quantity the total becomes the new
\* total and the allocated quantity stays.  No other item changes.
C21_SetTotalQuantity ==
    [][op'.name = "setTotalQuantity" =>
          Local(findInventoryItemById(inventory, op'.item), LAMBDA i :
              IF i = 0 THEN ~op'.ok /\ inventory' = inventory
              ELSE IF op'.qty < inventory[i].allocatedQuantity
              THEN ~op'.ok /\ inventory' = inventory
              ELSE /\ op'.ok
                   /\ inventory'[i].totalQuantity = op'.qty
                   /\ inventory'[i].allocatedQuantity = inventory[i].allocatedQuantity
                   /\ inventory' = [inventory EXCEPT ![i].totalQuantity = op'.qty])]_vars

\* C21, its case: Chairs, lowered from 100 to 60 with 30 allocated, was then
\* refused a total of 20.
C21_Witness ==
    /\ op.name = "setTotalQuantity"
    /\ ~op.ok
    /\ op.qty = 20
    /\ \E it \in Range(inventory) :
           /\ it.itemId = op.item
           /\ it.totalQuantity = 60
           /\ it.allocatedQuantity = 30

C23_RecoveredAfterStop ==
    [][/\ op.name \in {"stoppedInAllocate", "stoppedInDeallocate"}
       /\ pc = "boot"
       /\ pc' = "loaded"
       =>
          \A i \in 1..Len(inventory') :
              inventory'[i].allocatedQuantity
                  = SumAllocated(events', inventory'[i].itemId)]_vars

\* C23, its case: the process stopped inside an allocate; the inventory file
\* holds the count of the allocation, the events file does not hold the
\* entry, and loadData has put the item's count back to what the loaded
\* events sum to.
C23_Witness ==
    /\ pc = "loaded"
    /\ saved # NoSnapshot
    /\ \E i \in 1..Len(inventory) :
           /\ ItemFromString(inventoryFile[i]).rec.allocatedQuantity
                  = saved.inventory[i].allocatedQuantity
           /\ saved.inventory[i].allocatedQuantity > 0
           /\ SumAllocated(saved.events, inventory[i].itemId)
                  = saved.inventory[i].allocatedQuantity
           /\ inventory[i].allocatedQuantity = 0
           /\ SumAllocated(events, inventory[i].itemId) = 0
           /\ eventsFile # EventsLines(saved.events)

\* C24: in every state that allocations and deallocations reach from the
\* seeded system, every entry of every event's allocatedInventory holds a
\* quantity of at least 1.
C24_EntriesPositive ==
    \A e \in 1..Len(events) :
        \A itemId \in DOMAIN events[e].allocatedInventory :
            events[e].allocatedInventory[itemId] >= 1

\* C24, its case: a deallocation has taken all that the event held of the
\* item, the event has no entry for the item any more, and another event
\* still holds some of it.
C24_Witness ==
    /\ op.name = "deallocate"
    /\ op.ok
    /\ op.actual = op.qty
    /\ \E e \in 1..Len(events) :
           /\ events[e].eventId = op.ev
           /\ op.item \notin DOMAIN events[e].allocatedInventory
    /\ \E e \in 1..Len(events) :
           /\ events[e].eventId # op.ev
           /\ op.item \in DOMAIN events[e].allocatedInventory

\* C25: an Attendee, InventoryItem or Event line with fewer comma-separated
\* segments than the fields its decoder reads is decoded to the sentinel
\* record named ERROR, never to an ordinary record built from the fields
\* that are there.
C25_ShortLineIsError ==
    (/\ codec.pc = "decoded"
     /\ codec.kind \in {"attendee", "item", "event"}
     /\ CountChar(codec.line, ",") + 1 < RequiredFields(codec.kind))
        => codec.ok /\ codec.out.name = ERRORSTR

\* C26: updateEventStatus on an existing event is never refused, whatever
\* status the event has and whatever status is chosen; it sets the status
\* chosen and changes nothing else: the event's other fields, its
\* attendeeIds and allocatedInventory, the other events, the Attendee store
\* and the inventory stay as they were.
C26_StatusOnly ==
    [][op'.name = "updateEventStatus" =>
          Local(findEventById(events, op'.ev), LAMBDA e :
              IF e = 0 THEN ~op'.ok /\ UNCHANGED stores
              ELSE /\ op'.ok
                   /\ op'.from = events[e].status
                   /\ events'[e].status = op'.to
                   /\ events' = [events EXCEPT ![e].status = op'.to]
                   /\ UNCHANGED <<users, inventory, allAttendees>>)]_vars

\* C26, its case: event 1, CANCELED with user1 registered and 50 Chairs
\* allocated, has been moved back to UPCOMING and keeps both.
C26_Witness ==
    /\ op.name = "updateEventStatus"
    /\ op.ok
    /\ op.from = CANCELED
    /\ op.to = UPCOMING
    /\ \E e \in 1..Len(events) :
           /\ events[e].eventId = op.ev
           /\ events[e].status = UPCOMING
           /\ events[e].attendeeIds # <<>>
           /\ DOMAIN events[e].allocatedInventory # {}
           /\ \E i \in 1..Len(inventory) :
                  /\ inventory[i].itemId \in DOMAIN events[e].allocatedInventory
                  /\ inventory[i].allocatedQuantity
                         = events[e].allocatedInventory[inventory[i].itemId]
           /\ \E a \in Range(allAttendees) : a.attendeeId \in Range(events[e].attendeeIds)

\* C27: while the menus are open, every id in an event's attendeeIds is the
\* id of an Attendee of the store whose eventIdRegisteredFor is the event's
\* id.
C27_ListedAttendeesRegistered ==
    pc = "running" =>
        \A e \in 1..Len(events) :
            \A id \in Range(events[e].attendeeIds) :
                \E a \in Range(allAttendees) :
                    /\ a.attendeeId = id
                    /\ a.eventIdRegisteredFor = events[e].eventId

\* C28: when a user's registration for an event has succeeded, the same
\* user's cancel for the same event, done next, succeeds and leaves the
\* event's attendeeIds without the id of any Attendee that carries the
\* user's name.
C28_RegisterThenCancel ==
    [][(/\ op.name = "register"
        /\ op.ok
        /\ op'.name = "cancel"
        /\ op'.who = op.who
        /\ op'.ev = op.ev)
       => /\ op'.ok
          /\ \A a \in Range(allAttendees) :
                 toLower(a.name) = toLower(op.who) =>
                     a.attendeeId
                         \notin Range(events'[findEventById(events', op.ev)].attendeeIds)]_vars

\* C29: a register or a cancel of one user leaves every Attendee that
\* carries another username (compared exactly) in the store as it was, and
\* leaves that Attendee's id in exactly the events' lists it was in.
C29_OtherUsersUntouched ==
    [][op'.name \in {"register", "cancel"} =>
          \A a \in Range(allAttendees) :
              a.name # op'.who =>
                  /\ a \in Range(allAttendees')
                  /\ \A e \in 1..Len(events) :
                         a.attendeeId \in Range(events[e].attendeeIds)
                             <=> a.attendeeId \in Range(events'[e].attendeeIds)]_vars

\* C30: deleteEvent(id) with an event of that id in the store removes the
\* events of that id and nothing else of the event store: the other events
\* stay in their order with every field as it was, and every Attendee
\* registered for another event stays in the Attendee store as it was.  With
\* no event of that id it is refused and no store changes.
C30_DeleteFrame ==
    [][op'.name = "deleteEvent" =>
          IF \E e \in Range(events) : e.eventId = op'.ev
          THEN /\ op'.ok
               /\ events' = SelectSeq(events, LAMBDA e : e.eventId # op'.ev)
               /\ \A a \in Range(allAttendees) :
                      a.eventIdRegisteredFor # op'.ev => a \in Range(allAttendees')
          ELSE ~op'.ok /\ UNCHANGED stores]_vars

\* C30, its case: event 1, which had a registration, has been deleted out of
\* three events; events 2 and 3 follow in that order, event 2 with its
\* registration and its allocation, and the Attendee of event 2 is in the store.
C30_Witness ==
    /\ op.name = "deleteEvent" /\ op.ok /\ op.ev = 1
    /\ Len(events) = 2
    /\ events[1].eventId = 2 /\ events[2].eventId = 3
    /\ events[1].attendeeIds # <<>>
    /\ DOMAIN events[1].allocatedInventory # {}
    /\ \E a \in Range(allAttendees) : a.eventIdRegisteredFor = 2
    /\ nextAttendeeId > Len(allAttendees) + 1
====
